---- MODULE Spec2Model ----
(***************************************************************************)
(* Admission and conflict-resolution core of the DFP ad manager            *)
(* (src/dfpFiles/adSlot.js: class AdSlot, lines 49-444, and class          *)
(* AdManager, lines 519-1549).                                             *)
(*                                                                         *)
(* Handlers are state transformers: an operator takes the program state as *)
(* a record st and returns the state it leaves (with its return value and  *)
(* whether it raised).  An action applies one whole handler to the current *)
(* state.  JavaScript values that the gate can return are the strings      *)
(* "true", "false", "undefined" and "null".                                *)
(*                                                                         *)
(* googletag.cmd.push(f) runs f at once: every handler below runs after    *)
(* the GPT library is ready (the registration passes are themselves queued *)
(* commands, render events come from the loaded library).                  *)
(*                                                                         *)
(* ./conflictResolver is imported by the source but is not part of it; its *)
(* operations are modelled from the specification's section 4.3.           *)
(***************************************************************************)
EXTENDS Integers, Sequences, FiniteSets, TLC

VARIABLES
    env,            \* external collaborators' answers (flags, user, breakpoint)
    cfg,            \* config.adSlotConfig and what each slot id contains
    edges,          \* BlockingRelation: <<a, b>> means b is blocked by a
    dom,            \* ids for which document.getElementById finds an element
    adSlots,        \* the AdSlot objects, by id (reg: held in this.adSlots)
    regOrder,       \* key order of the Map this.adSlots
    deferredSlots,  \* conflictResolver.deferredSlots, in insertion order
    resolvedWith,   \* conflictResolver: last resolved size of each slot
    defineCalls,    \* backend: define calls received, per id
    displayCalls,   \* backend: display calls received, per id
    pending,        \* backend: ids whose render outcome has not been emitted
    lsItem,         \* localStorage[INTERSTITIAL_DFP_KEY]
    ssFlag,         \* sessionStorage[INTERSTITIAL_DFP_KEY] is set
    timers,         \* setTimeout callbacks of setInterstitialShowingData
    interstitialTimeoutMultiplier,
    now,            \* the clock, in milliseconds
    pc,             \* which registration passes of the constructor have run
    last            \* the last handler run: its name, arguments and results

vars == <<env, cfg, edges, dom, adSlots, regOrder, deferredSlots, resolvedWith,
          defineCalls, displayCalls, pending, lsItem, ssFlag, timers,
          interstitialTimeoutMultiplier, now, pc, last>>

----------------------------------------------------------------------------
(* Bounds of the model *)

\* viewport changes in one page lifetime
MaxResizes == 1


----------------------------------------------------------------------------
(* Enumerations of the source *)

Ids == {"A", "X", "B", "C", "I"}

\* Object.keys(config.adSlotConfig)
ConfigKeys == <<"X", "A", "B", "C", "I">>

adPriorities == [high |-> "high", normal |-> "normal", low |-> "low"]

adTargets == [all |-> "all", nonPaying |-> "nonPaying", anonymous |-> "anonymous",
              registered |-> "registered", paying |-> "paying",
              digitalOnly |-> "digitalOnly", digitalAndPrint |-> "digitalAndPrint"]

adTypes == [maavaron |-> ".maavaron", interstitial |-> ".new_interstitial",
            interstitialSmall |-> ".interstitial.mobile",
            interstitialFull |-> ".full_interstitial.mobile",
            popunder |-> ".popunder", talkback |-> ".talkback", regular |-> "regular"]

UserTypes == [anonymous |-> "anonymous", registered |-> "registered", paying |-> "paying"]

BpNames == {"s", "l"}

GOOGLE_INTERSTITIAL_TIME_MS == 3780000
GOOGLE_INTERSTITIAL_MIN_TIME_MS == 3000
TIMEOUT_STEP_MS == 100

\* x is evaluated once and named r in F
Bind(x, F(_)) == CHOOSE v \in {F(r) : r \in {x}} : TRUE

Truthy(v) == v = "true"
JS(b) == IF b THEN "true" ELSE "false"

\* id.includes(s): cfg[id].kw is the set of the substrings of interest id contains
IdIncludes(st, id, s) == s \in st.cfg[id].kw

SeqToSet(s) == {s[k] : k \in 1..Len(s)}
InSeq(x, s) == \E k \in 1..Len(s) : s[k] = x
Without(s, x) == SelectSeq(s, LAMBDA y : y # x)
ZeroCount == [i \in Ids |-> 0]

NoSlot == [reg |-> FALSE, htmlElement |-> FALSE, target |-> "all",
           deferredSlot |-> FALSE, shown |-> FALSE, slot |-> "undefined",
           lastResolvedSize |-> "undefined",
           lastResolvedWithBreakpoint |-> "undefined", hidden |-> FALSE]

NoItem == [kind |-> "none", attempt |-> 0, hasShowTime |-> FALSE, showTime |-> 0]

\* The program state as one record; evals counts the gate's evaluations per
\* slot inside the handler being run; refreshed, hid, errored and deleted are
\* the slots the handler refreshed at the backend, called hide() on, got the
\* gate's errored result for, and deleted from the deferred slots itself.
Cur == [env |-> env, cfg |-> cfg, edges |-> edges, dom |-> dom, adSlots |-> adSlots,
        regOrder |-> regOrder, deferredSlots |-> deferredSlots,
        resolvedWith |-> resolvedWith, defineCalls |-> defineCalls,
        displayCalls |-> displayCalls, pending |-> pending, lsItem |-> lsItem,
        ssFlag |-> ssFlag, timers |-> timers,
        interstitialTimeoutMultiplier |-> interstitialTimeoutMultiplier,
        now |-> now, evals |-> ZeroCount, refreshed |-> {}, hid |-> {},
        errored |-> {}, deleted |-> {}]

Commit(st) ==
    /\ env' = st.env
    /\ cfg' = st.cfg
    /\ edges' = st.edges
    /\ dom' = st.dom
    /\ adSlots' = st.adSlots
    /\ regOrder' = st.regOrder
    /\ deferredSlots' = st.deferredSlots
    /\ resolvedWith' = st.resolvedWith
    /\ defineCalls' = st.defineCalls
    /\ displayCalls' = st.displayCalls
    /\ pending' = st.pending
    /\ lsItem' = st.lsItem
    /\ ssFlag' = st.ssFlag
    /\ timers' = st.timers
    /\ interstitialTimeoutMultiplier' = st.interstitialTimeoutMultiplier
    /\ now' = st.now

----------------------------------------------------------------------------
(* AdManager.getAdType, AdSlot.isMobile / isInterstitial / isOutOfPage *)

getAdType(st, id) ==
    IF IdIncludes(st, id, adTypes.maavaron) THEN adTypes.maavaron
    ELSE IF IdIncludes(st, id, adTypes.popunder) THEN adTypes.popunder
    ELSE IF IdIncludes(st, id, adTypes.talkback) THEN adTypes.talkback
    ELSE IF IdIncludes(st, id, adTypes.interstitial) THEN adTypes.interstitial
    ELSE adTypes.regular

isMobile(st) == st.env.mobile

isInterstitial(st, id) ==
    IF isMobile(st) THEN getAdType(st, id) = adTypes.interstitial ELSE FALSE

\* the target a slot takes from its element: data-audtarget, else 'all'
ElementTarget(st, id) ==
    IF st.cfg[id].domTarget = "absent" THEN adTargets.all ELSE st.cfg[id].domTarget

----------------------------------------------------------------------------
(* ConflictResolver (modelled from the specification, section 4.3) *)

Predecessors(st, id) == {a \in Ids : <<a, id>> \in st.edges}
Successors(st, id) == {b \in Ids : <<id, b>> \in st.edges}

\* blocked: a predecessor has no outcome yet, or resolved non-empty
isBlocked(st, id) ==
    \E a \in Predecessors(st, id) : st.resolvedWith[a] # "EMPTY"

\* isBlocked is the resolver's only entry point at registration time: it
\* records the slot as deferred when a predecessor has not resolved yet
isBlockedEffect(st, id) ==
    IF /\ \E a \in Predecessors(st, id) : st.resolvedWith[a] = "none"
       /\ ~InSeq(id, st.deferredSlots)
    THEN [st EXCEPT !.deferredSlots = Append(@, id)]
    ELSE st

\* some registered successor has not resolved yet
isBlocking(st, id) ==
    \E b \in Successors(st, id) : st.resolvedWith[b] = "none"

getBlockedSlotsIds(st, id) ==
    SelectSeq(ConfigKeys, LAMBDA b : b \in Successors(st, id))

updateResolvedSlot(st, id, size) ==
    [st EXCEPT !.resolvedWith[id] = size]

----------------------------------------------------------------------------
(* The predicates of the admission gate *)

isWhitelisted(st, id) ==
    IF st.cfg[id].whitelistReferrers # {}
    THEN st.cfg[id].whitelistReferrers \cap st.env.referrer # {}
    ELSE TRUE

isBlacklisted(st, id) ==
    IF st.cfg[id].blacklistReferrers # {}
    THEN st.cfg[id].blacklistReferrers \cap st.env.referrer # {}
    ELSE FALSE

\* a parse that gives a malformed item an attempt count
getParsedKeepsGarbage(item) ==
    IF item.kind = "record" THEN item ELSE [NoItem EXCEPT !.kind = "record", !.attempt = 2]

\* getParsed(localStorage item): a malformed item parses to {}
getParsed(item) ==
    IF item.kind = "record" THEN item ELSE [NoItem EXCEPT !.kind = "record"]

\* the window with its two ends included
InWindowClosed(elapsed) ==
    elapsed <= GOOGLE_INTERSTITIAL_TIME_MS /\ elapsed >= GOOGLE_INTERSTITIAL_MIN_TIME_MS

\* lines 955-956 and 1076-1077: elapsed is in milliseconds, the source
\* compares hours
InWindow(elapsed) ==
    elapsed < GOOGLE_INTERSTITIAL_TIME_MS /\ elapsed > GOOGLE_INTERSTITIAL_MIN_TIME_MS

Abs(n) == IF n < 0 THEN -n ELSE n

googleInterstitialShouldDisplay(st, id) ==
    IF getAdType(st, id) # adTypes.interstitial THEN TRUE
    ELSE IF st.lsItem.kind = "none" THEN TRUE
    ELSE LET itemParsed == getParsed(st.lsItem)
         IN IF itemParsed.hasShowTime
            THEN ~InWindow(Abs(st.now - itemParsed.showTime))
            ELSE TRUE

shouldDisplayAdInWebView(st, id) ==
    LET adExceptions == {"interstitial"} \cup
                        (IF st.env.isWebView
                         THEN (IF st.env.isHTZ THEN {"inread", "textlink"}
                               ELSE {"inread.2", "inread.3"})
                         ELSE {})
    IN ~st.env.isWebView \/ \A ad \in adExceptions : ~IdIncludes(st, id, ad)

shouldDisplayAdAfterAdBlockRemoval(st, id) ==
    ~(st.env.adBlockRemoved /\
      (getAdType(st, id) = adTypes.maavaron \/ getAdType(st, id) = adTypes.popunder))

\* the JavaScript value of
\*   !paywallBanner || (mc && mc >= 12) || (nextslotLocation && !nextslotLocation.includes('pop'))
shouldDisplayAdMaavaronAfterPayWallBanner(st, id) ==
    IF st.env.site = "haaretz" /\ getAdType(st, id) = adTypes.maavaron
    THEN LET c == st.env.cobj
         IN IF c.kind # "record" THEN "true"
            ELSE IF c.mc >= 12 THEN "true"
            ELSE IF c.next = "absent" THEN "undefined"
            ELSE IF c.next = "null" THEN "null"
            ELSE IF c.next = "pop" THEN "false"
            ELSE "true"
    ELSE "true"

\* line 1288 without the comparison with [[0, 0]]
doesBreakpointContainAdNoSentinel(st, id) ==
    IF st.cfg[id].responsive
    THEN LET mapping == st.cfg[id].responsiveAdSizeMapping[st.env.breakpoint]
         IN IF mapping \in {"missing", "notArray"} THEN "raise"
            ELSE JS(mapping # "empty")
    ELSE "true"

\* lines 1269-1291; a mapping entry is "sizes" (a list of sizes), "mixed"
\* ([[0, 0]] followed by sizes), "zero" ([[0, 0]]), "empty" ([]), "missing"
\* (no entry) or "notArray"; "raise" when the entry is not an array
doesBreakpointContainAd(st, id) ==
    IF st.cfg[id].responsive
    THEN LET mapping == st.cfg[id].responsiveAdSizeMapping[st.env.breakpoint]
         IN IF mapping \in {"missing", "notArray"} THEN "raise"
            ELSE JS(mapping # "empty" /\ mapping # "zero")
    ELSE "true"

haveValidCookieForSmartphoneapp(st) == st.env.isValidForsmartPhone

\* the switch with the digitalOnly case falling to the default
doesUserTypeMatchBannerTargetingNoDigitalOnly(st, adTarget) ==
    IF st.env.overrideIdentity THEN TRUE
    ELSE LET userType == st.env.userType
         IN CASE adTarget = adTargets.all -> TRUE
              [] adTarget = adTargets.nonPaying ->
                    userType = UserTypes.anonymous \/ userType = UserTypes.registered
              [] adTarget = adTargets.anonymous -> userType = UserTypes.anonymous
              [] adTarget = adTargets.registered -> userType = UserTypes.registered
              [] adTarget = adTargets.paying -> userType = UserTypes.paying
              [] adTarget = adTargets.digitalAndPrint -> userType = UserTypes.paying
              [] OTHER -> FALSE

\* lines 1199-1234; overrideIdentity: the sso cookie names the built-in user
doesUserTypeMatchBannerTargeting(st, adTarget) ==
    IF st.env.overrideIdentity THEN TRUE
    ELSE LET userType == st.env.userType
         IN CASE adTarget = adTargets.all -> TRUE
              [] adTarget = adTargets.nonPaying ->
                    userType = UserTypes.anonymous \/ userType = UserTypes.registered
              [] adTarget = adTargets.anonymous -> userType = UserTypes.anonymous
              [] adTarget = adTargets.registered -> userType = UserTypes.registered
              [] adTarget = adTargets.paying -> userType = UserTypes.paying
              [] adTarget = adTargets.digitalOnly -> userType = UserTypes.paying
              [] adTarget = adTargets.digitalAndPrint -> userType = UserTypes.paying
              [] OTHER -> FALSE

----------------------------------------------------------------------------
(* AdManager.shouldSendRequestToDfp: the admission gate *)

\* the operands of the gate's && chain, in the order the source writes them
GateOperandsBreakpointFirst ==
    <<"adSlot", "doesBreakpointContainAd", "isReadyToRenderExternals", "htmlElement",
      "googleInterstitialShouldDisplay", "isBlocked", "isWhitelisted", "isBlacklisted",
      "shouldDisplayAdInWebView", "shouldDisplayAdAfterAdBlockRemoval",
      "shouldDisplayAdMaavaronAfterPayWallBanner",
      "haveValidCookieForSmartphoneapp", "doesUserTypeMatchBannerTargeting">>

GateOperandsNoBlacklist ==
    <<"adSlot", "isReadyToRenderExternals", "htmlElement",
      "googleInterstitialShouldDisplay", "isBlocked", "isWhitelisted",
      "shouldDisplayAdInWebView", "shouldDisplayAdAfterAdBlockRemoval",
      "shouldDisplayAdMaavaronAfterPayWallBanner", "doesBreakpointContainAd",
      "haveValidCookieForSmartphoneapp", "doesUserTypeMatchBannerTargeting">>

GateOperandsNoConflict ==
    <<"adSlot", "isReadyToRenderExternals", "htmlElement",
      "googleInterstitialShouldDisplay", "isWhitelisted", "isBlacklisted",
      "shouldDisplayAdInWebView", "shouldDisplayAdAfterAdBlockRemoval",
      "shouldDisplayAdMaavaronAfterPayWallBanner", "doesBreakpointContainAd",
      "haveValidCookieForSmartphoneapp", "doesUserTypeMatchBannerTargeting">>

GateOperands ==
    <<"adSlot", "isReadyToRenderExternals", "htmlElement",
      "googleInterstitialShouldDisplay", "isBlocked", "isWhitelisted", "isBlacklisted",
      "shouldDisplayAdInWebView", "shouldDisplayAdAfterAdBlockRemoval",
      "shouldDisplayAdMaavaronAfterPayWallBanner", "doesBreakpointContainAd",
      "haveValidCookieForSmartphoneapp", "doesUserTypeMatchBannerTargeting">>

\* the JavaScript value of one operand ("raise" when evaluating it throws)
GateOperand(st, id, name) ==
    CASE name = "adSlot" -> "true"
      [] name = "isReadyToRenderExternals" -> st.env.isReadyToRenderExternals
      [] name = "htmlElement" ->
            JS(st.adSlots[id].htmlElement \/
               (~st.env.isWebView /\ getAdType(st, id) = adTypes.interstitial))
      [] name = "googleInterstitialShouldDisplay" ->
            JS(googleInterstitialShouldDisplay(st, id))
      [] name = "isBlocked" -> JS(isBlocked(st, id) = FALSE)
      [] name = "isWhitelisted" -> JS(isWhitelisted(st, id))
      [] name = "isBlacklisted" -> JS(isBlacklisted(st, id) = FALSE)
      [] name = "shouldDisplayAdInWebView" -> JS(shouldDisplayAdInWebView(st, id))
      [] name = "shouldDisplayAdAfterAdBlockRemoval" ->
            JS(shouldDisplayAdAfterAdBlockRemoval(st, id))
      [] name = "shouldDisplayAdMaavaronAfterPayWallBanner" ->
            shouldDisplayAdMaavaronAfterPayWallBanner(st, id)
      [] name = "doesBreakpointContainAd" -> doesBreakpointContainAd(st, id)
      [] name = "haveValidCookieForSmartphoneapp" -> haveValidCookieForSmartphoneapp(st)
      [] name = "doesUserTypeMatchBannerTargeting" ->
            JS(doesUserTypeMatchBannerTargeting(st, st.adSlots[id].target))

\* what the catch block of the gate returns
GateCatch == "null"

\* a && b && ...: the first falsy operand's value, else the last operand's;
\* operands after it are not evaluated; a throw ends in the catch block
RECURSIVE EvalChain(_, _, _, _)
EvalChain(st, id, ops, k) ==
    LET v == GateOperand(st, id, ops[k])
    IN IF v = "raise"
       THEN [res |-> GateCatch, raised |-> TRUE, trace |-> <<ops[k]>>]
       ELSE IF ~Truthy(v) \/ k = Len(ops)
       THEN [res |-> v, raised |-> FALSE, trace |-> <<ops[k]>>]
       ELSE LET r == EvalChain(st, id, ops, k + 1)
            IN [r EXCEPT !.trace = <<ops[k]>> \o @]

\* lines 1094-1103: a slot without element takes the element the page now has
LateBind(st, id) ==
    IF ~st.adSlots[id].htmlElement /\ id \in st.dom
    THEN [st EXCEPT !.adSlots[id].htmlElement = TRUE,
                    !.adSlots[id].target = ElementTarget(st, id),
                    !.adSlots[id].reg = TRUE,
                    !.regOrder = IF InSeq(id, @) THEN @ ELSE Append(@, id)]
    ELSE st

\* the gate with the element bound after the chain instead of before it
shouldSendRequestToDfpBindsAfter(st, id) ==
    Bind(EvalChain(st, id, GateOperands, 1), LAMBDA c :
        [st |-> [LateBind(st, id) EXCEPT !.evals[id] = @ + 1],
         res |-> c.res, raised |-> c.raised, trace |-> c.trace, exc |-> FALSE])

shouldSendRequestToDfp(st, id) ==
    Bind(LateBind(st, id), LAMBDA s1 :
      Bind(EvalChain(s1, id, GateOperands, 1), LAMBDA c :
        [st |-> [(IF InSeq("isBlocked", c.trace) THEN isBlockedEffect(s1, id) ELSE s1)
                    EXCEPT !.evals[id] = @ + 1],
         res |-> c.res, raised |-> c.raised, trace |-> c.trace,
         exc |-> FALSE]))    \* the catch block returns: nothing is rethrown

----------------------------------------------------------------------------
(* AdSlot: defineSlot, show, hide; AdManager.setInterstitialShowingData *)

\* googletag.display: the backend starts a request for a slot it has a
\* definition of, and emits that slot's render outcome later
Display(st, id) ==
    [st EXCEPT !.displayCalls[id] = @ + 1,
               !.pending = IF st.defineCalls[id] > 0 THEN @ \cup {id} ELSE @]

\* building the responsive size mapping calls .map on every entry (line 346)
DefineRaises(st, id) ==
    /\ st.cfg[id].responsive
    /\ \E b \in BpNames : st.cfg[id].responsiveAdSizeMapping[b] = "notArray"

\* isMaavaron() returns false on every path, so lines 304-313 never run
defineSlot(st, id) ==
    Bind(shouldSendRequestToDfp(st, id), LAMBDA g :
        IF ~Truthy(g.res)
        THEN [st |-> g.st, ret |-> "self", exc |-> FALSE]
        ELSE [st |-> [g.st EXCEPT !.defineCalls[id] = @ + 1],
              ret |-> IF DefineRaises(g.st, id) THEN "undefined" ELSE "gpt",
              exc |-> DefineRaises(g.st, id)])

\* line 1037 left out: every call is scheduled with the same delay
setInterstitialShowingDataFixedDelay(st, hasNow) ==
    [st EXCEPT !.timers = Append(@, [hasNow |-> hasNow, showTime |-> st.now,
                                     delay |-> st.interstitialTimeoutMultiplier
                                               * TIMEOUT_STEP_MS])]

\* the write is delayed; the multiplier grows with every call
setInterstitialShowingData(st, hasNow) ==
    [st EXCEPT !.timers = Append(@, [hasNow |-> hasNow, showTime |-> st.now,
                                     delay |-> st.interstitialTimeoutMultiplier
                                               * TIMEOUT_STEP_MS]),
               !.interstitialTimeoutMultiplier = @ + 1]

\* line 223: show passes for a slot with an element or a mobile interstitial
ShowPasses(st, id) == st.adSlots[id].htmlElement \/ isInterstitial(st, id)

\* line 223: show acts once per slot
ShowGuardIgnoresShown(st, id) == ShowPasses(st, id)

ShowGuard(st, id) == ~st.adSlots[id].shown /\ ShowPasses(st, id)

\* lines 217-222: late init of the element
ShowLateInit(st, id) ==
    IF ~st.adSlots[id].htmlElement /\ id \in st.dom
    THEN [st EXCEPT !.adSlots[id].htmlElement = TRUE,
                    !.adSlots[id].target = ElementTarget(st, id)]
    ELSE st

\* lines 248-272: unhide and display the element, or display the slot
ShowDisplay(st, id) ==
    IF st.adSlots[id].htmlElement
    THEN Display(IF IdIncludes(st, id, "interstitial.mobile")
                 THEN setInterstitialShowingData([st EXCEPT !.adSlots[id].hidden = FALSE],
                                                 FALSE)
                 ELSE [st EXCEPT !.adSlots[id].hidden = FALSE], id)
    ELSE Display(setInterstitialShowingData(st, TRUE), id)

show(st, id) ==
    Bind(ShowLateInit(st, id), LAMBDA s1 :
        IF ShowGuard(s1, id)
        THEN Bind(IF s1.adSlots[id].deferredSlot \/ s1.adSlots[id].slot = "undefined"
                  THEN defineSlot([s1 EXCEPT !.adSlots[id].shown = TRUE], id)
                  ELSE [st |-> [s1 EXCEPT !.adSlots[id].shown = TRUE],
                        ret |-> s1.adSlots[id].slot, exc |-> FALSE],
                  LAMBDA d :
                    IF d.exc THEN [st |-> d.st, exc |-> TRUE]
                    ELSE [st |-> ShowDisplay([d.st EXCEPT !.adSlots[id].slot = d.ret], id),
                          exc |-> FALSE])
        ELSE [st |-> s1, exc |-> FALSE])

hide(st, id) ==
    IF st.adSlots[id].htmlElement THEN [st EXCEPT !.adSlots[id].hidden = TRUE] ELSE st

----------------------------------------------------------------------------
(* AdManager.sortSlots, sortAdSlots *)

\* the ids the labels stand for, in lexicographic order:
\* a.side < b.box < c.mobile_web.box < i.new_interstitial < top.billboard
LexRank == [X |-> 1, B |-> 2, C |-> 3, I |-> 4, A |-> 5]

\* a comparison that orders two ids without the key lexicographically
sortSlotsLexicographic(st, First, Second) ==
    LET inc(i) == IdIncludes(st, i, "billboard")
        idx(i) == st.cfg[i].billboardAt
        lex == IF LexRank[First] < LexRank[Second] THEN -1
               ELSE IF LexRank[First] > LexRank[Second] THEN 1
               ELSE 0
    IN IF inc(First) /\ inc(Second)
       THEN IF idx(First) - idx(Second) # 0 THEN idx(First) - idx(Second) ELSE lex
       ELSE IF inc(First) /\ ~inc(Second) THEN -1
       ELSE IF inc(Second) THEN 1
       ELSE lex

\* lines 713-733
sortSlots(st, First, Second) ==
    LET inc(i) == IdIncludes(st, i, "billboard")
        idx(i) == st.cfg[i].billboardAt
    IN IF inc(First) /\ inc(Second)
       THEN LET result == idx(First) - idx(Second)
            IN IF result # 0 THEN result
               ELSE IF LexRank[First] < LexRank[Second] THEN -1
               ELSE IF LexRank[First] > LexRank[Second] THEN 1
               ELSE 0
       ELSE IF inc(First) /\ ~inc(Second) THEN -1
       \* !First[0].includes(key): one character never contains the key
       ELSE IF inc(Second) THEN 1
       ELSE 0

\* Array.prototype.sort is stable: a key goes after the last key that does
\* not compare greater
RECURSIVE InsertSorted(_, _, _)
InsertSorted(st, sorted, x) ==
    IF sorted = <<>> THEN <<x>>
    ELSE IF sortSlots(st, sorted[Len(sorted)], x) <= 0 THEN Append(sorted, x)
    ELSE Bind(SubSeq(sorted, 1, Len(sorted) - 1), LAMBDA front :
            Append(InsertSorted(st, front, x), sorted[Len(sorted)]))

RECURSIVE SortKeys(_, _)
SortKeys(st, keys) ==
    IF keys = <<>> THEN <<>>
    ELSE Bind(SortKeys(st, SubSeq(keys, 1, Len(keys) - 1)), LAMBDA sorted :
            InsertSorted(st, sorted, keys[Len(keys)]))

sortAdSlots(st, keys) == SortKeys(st, keys)

----------------------------------------------------------------------------
(* AdManager.initAdSlots and the AdSlot constructor *)

\* lines 76-79: an id with 'mobile_web' rewrites adUnitBase, which must exist
ConstructorRaises(st, id) ==
    IdIncludes(st, id, "mobile_web") /\ ~st.env.hasAdUnitBase

\* line 98: the constructor defines a slot that is not deferred and has its
\* element
DefinesAtConstructionDeferredToo(st, id, deferred) == id \in st.dom

DefinesAtConstruction(st, id, deferred) == ~deferred /\ id \in st.dom

\* lines 50-104: the new AdSlot; the constructor catches what defineSlot throws
NewAdSlot(st, id, deferred) ==
    Bind([st EXCEPT !.adSlots[id] =
            [NoSlot EXCEPT !.htmlElement = (id \in st.dom),
               !.target = IF id \in st.dom THEN ElementTarget(st, id)
                          ELSE IF getAdType(st, id) = adTypes.interstitial
                          THEN adTargets.nonPaying
                          ELSE adTargets.all,
               !.deferredSlot = deferred]], LAMBDA s2 :
        IF DefinesAtConstruction(st, id, deferred)
        THEN Bind(defineSlot(s2, id), LAMBDA d :
                IF d.exc THEN d.st ELSE [d.st EXCEPT !.adSlots[id].slot = d.ret])
        ELSE s2)

\* lines 802-812: a high-priority slot the gate admits is shown in the pass
ShowInPass(st, id, filteredPriority) ==
    IF getAdType(st, id) # adTypes.talkback /\ filteredPriority = adPriorities.high
    THEN Bind(shouldSendRequestToDfp(st, id), LAMBDA g :
            IF Truthy(g.res) THEN show(g.st, id) ELSE [st |-> g.st, exc |-> FALSE])
    ELSE [st |-> st, exc |-> FALSE]

\* lines 770-812: one iteration of the loop, inside its try block
RegisterSlot(st, id, filteredPriority) ==
    Bind(isBlockedEffect(st, id), LAMBDA s1 :
        IF ConstructorRaises(s1, id) THEN [st |-> s1, exc |-> TRUE]
        ELSE Bind(NewAdSlot(s1, id, isBlocked(st, id)), LAMBDA s3 :
                ShowInPass([s3 EXCEPT !.adSlots[id].reg = TRUE,
                                      !.regOrder = IF InSeq(id, @) THEN @
                                                   ELSE Append(@, id)],
                           id, filteredPriority)))

\* lines 813-815: the catch block of the loop body
InitCatchRethrow(r) == r

InitCatch(r) == [r EXCEPT !.exc = FALSE]

RECURSIVE InitLoop(_, _, _, _)
InitLoop(st, keys, k, filteredPriority) ==
    IF k > Len(keys) THEN [st |-> st, exc |-> FALSE]
    ELSE IF st.cfg[keys[k]].priority = filteredPriority
    THEN Bind(InitCatch(RegisterSlot(st, keys[k], filteredPriority)), LAMBDA r :
            IF r.exc THEN r ELSE InitLoop(r.st, keys, k + 1, filteredPriority))
    ELSE InitLoop(st, keys, k + 1, filteredPriority)

initAdSlots(st, filteredPriority) ==
    Bind(InitLoop(st, SortKeys(st, ConfigKeys), 1, filteredPriority), LAMBDA r :
        [r EXCEPT !.st.regOrder = sortAdSlots(r.st, @)])

----------------------------------------------------------------------------
(* AdManager.showAllSlots, showAllDeferredSlots *)

\* lines 589-606: the gate, then show for a slot not shown yet
ShowIfAdmitted(st, id) ==
    Bind(shouldSendRequestToDfp(st, id), LAMBDA g :
        IF Truthy(g.res) /\ ~g.st.adSlots[id].shown
        THEN show(g.st, id)
        ELSE [st |-> g.st, exc |-> FALSE])

RECURSIVE ShowAllLoop(_, _, _, _)
ShowAllLoop(st, keys, k, priorityFilter) ==
    IF k > Len(keys) THEN [st |-> st, exc |-> FALSE]
    ELSE IF st.cfg[keys[k]].priority = priorityFilter
    THEN Bind(ShowIfAdmitted(st, keys[k]), LAMBDA r :
            IF r.exc THEN r ELSE ShowAllLoop(r.st, keys, k + 1, priorityFilter))
    ELSE ShowAllLoop(st, keys, k + 1, priorityFilter)

showAllSlots(st, priorityFilter) ==
    ShowAllLoop(st, sortAdSlots(st, st.regOrder), 1, priorityFilter)

\* lines 627-634
ShowDeferredOne(st, id) ==
    IF st.adSlots[id].reg
    THEN IF ~isBlocked(st, id)
         THEN Bind(shouldSendRequestToDfp(isBlockedEffect(st, id), id), LAMBDA g :
                 IF Truthy(g.res) THEN show(g.st, id) ELSE [st |-> g.st, exc |-> FALSE])
         ELSE [st |-> isBlockedEffect(st, id), exc |-> FALSE]
    ELSE [st |-> st, exc |-> FALSE]

RECURSIVE ShowDeferredLoop(_, _, _)
ShowDeferredLoop(st, keys, k) ==
    IF k > Len(keys) THEN [st |-> st, exc |-> FALSE]
    ELSE Bind(ShowDeferredOne(st, keys[k]), LAMBDA r :
            IF r.exc THEN r ELSE ShowDeferredLoop(r.st, keys, k + 1))

showAllDeferredSlots(st) == ShowDeferredLoop(st, st.deferredSlots, 1)

----------------------------------------------------------------------------
(* The slotRenderEnded listener and AdManager.releaseSlotDependencies *)

\* lines 1360-1368: hide the successors that are blocked
RECURSIVE HideBlockedLoop(_, _, _)
HideBlockedLoop(st, blocked, k) ==
    IF k > Len(blocked) THEN st
    ELSE Bind(IF isBlocked(st, blocked[k]) /\ st.adSlots[blocked[k]].reg
              THEN hide(isBlockedEffect(st, blocked[k]), blocked[k])
              ELSE isBlockedEffect(st, blocked[k]), LAMBDA s1 :
            HideBlockedLoop(s1, blocked, k + 1))

\* lines 1374-1382: define the deferred slot (the handle is dropped), clear
\* its deferred flag, show it
DefineAndShow(st, id) ==
    IF st.adSlots[id].deferredSlot
    THEN Bind(defineSlot(st, id), LAMBDA d :
            IF d.exc THEN [st |-> d.st, exc |-> TRUE]
            ELSE show([d.st EXCEPT !.adSlots[id].deferredSlot = FALSE], id))
    ELSE show(st, id)

\* lines 1371-1383: one deferred slot of the drain; admitted holds the slot
\* when the gate admitted it
ReleaseOne(st, id) ==
    IF ~st.adSlots[id].reg THEN [st |-> st, exc |-> FALSE, admitted |-> {}]
    ELSE Bind(shouldSendRequestToDfp(st, id), LAMBDA g :
            IF ~Truthy(g.res) THEN [st |-> g.st, exc |-> FALSE, admitted |-> {}]
            ELSE Bind(DefineAndShow([g.st EXCEPT !.deferredSlots = Without(@, id),
                                                 !.deleted = @ \cup {id}], id),
                      LAMBDA r : [st |-> r.st, exc |-> r.exc, admitted |-> {id}]))

\* lines 1370-1384: the loop has no try block of its own, so an exception
\* in one deferred slot leaves it
RECURSIVE DrainLoop(_, _, _)
DrainLoop(st, keys, k) ==
    IF k > Len(keys) THEN [st |-> st, exc |-> FALSE, admitted |-> {}]
    ELSE Bind(ReleaseOne(st, keys[k]), LAMBDA r :
            IF r.exc THEN r
            ELSE Bind(DrainLoop(r.st, keys, k + 1), LAMBDA rest :
                    [rest EXCEPT !.admitted = @ \cup r.admitted]))

\* whether an outcome of the slot drains the deferred slots (line 1358)
Drains(st, id) == isBlocking(st, id)

\* lines 1355-1389: the whole body is one try block whose catch only logs
releaseSlotDependencies(st, id) ==
    Bind(updateResolvedSlot(st, id, st.adSlots[id].lastResolvedSize), LAMBDA s1 :
        IF Drains(s1, id)
        THEN Bind(HideBlockedLoop(s1, getBlockedSlotsIds(s1, id), 1), LAMBDA s2 :
               Bind(DrainLoop(s2, s2.deferredSlots, 1), LAMBDA r :
                 [st |-> r.st, exc |-> FALSE, caught |-> r.exc, admitted |-> r.admitted,
                  drained |-> TRUE]))
        ELSE [st |-> s1, exc |-> FALSE, caught |-> FALSE, admitted |-> {},
              drained |-> FALSE])

\* lines 1332-1343 of the listener
slotRenderEnded(st, id, isEmpty) ==
    IF st.adSlots[id].reg
    THEN Bind([st EXCEPT !.adSlots[id].lastResolvedSize =
                             IF isEmpty THEN "EMPTY" ELSE "sized",
                         !.adSlots[id].lastResolvedWithBreakpoint = st.env.breakpoint],
              LAMBDA s1 : releaseSlotDependencies(IF isEmpty THEN hide(s1, id) ELSE s1, id))
    ELSE [st |-> st, exc |-> FALSE, caught |-> FALSE, admitted |-> {}, drained |-> FALSE]

\* a callback that stores the instant of the call whether or not the caller
\* supplied one
InterstitialWriteAlwaysStamps(st, t) ==
    [st EXCEPT !.lsItem =
        [kind |-> "record",
         attempt |-> IF st.lsItem.kind = "none" THEN 1 ELSE getParsed(st.lsItem).attempt + 1,
         hasShowTime |-> TRUE, showTime |-> t.showTime]]

\* the delayed callback of setInterstitialShowingData (lines 1012-1035)
InterstitialWrite(st, t) ==
    LET itemParsed == getParsed(st.lsItem)
        attempt == IF st.lsItem.kind = "none" THEN 1 ELSE itemParsed.attempt + 1
    IN [st EXCEPT !.lsItem =
           IF t.hasNow
           THEN [kind |-> "record", attempt |-> attempt, hasShowTime |-> TRUE,
                 showTime |-> t.showTime]
           ELSE [kind |-> "record", attempt |-> attempt,
                 hasShowTime |-> IF st.lsItem.kind = "none" THEN FALSE
                                 ELSE itemParsed.hasShowTime,
                 showTime |-> IF st.lsItem.kind = "none" THEN 0 ELSE itemParsed.showTime]]

----------------------------------------------------------------------------
(* AdSlot.refresh; AdManager.refreshAllSlots, refreshAllSlotsInPage,        *)
(* refreshSlot, switchedToBreakpoint                                        *)

\* lines 402-414: the backend refreshes the slot of an AdSlot with an element,
\* and emits a render outcome again for a slot it has a definition of
refresh(st, id) ==
    IF st.adSlots[id].htmlElement
    THEN [st EXCEPT !.refreshed = @ \cup {id},
                    !.pending = IF st.adSlots[id].slot = "gpt" THEN @ \cup {id} ELSE @]
    ELSE st

\* the else branch of the refresh operations: adSlot.hide()
HideDenied(st, id) == [hide(st, id) EXCEPT !.hid = @ \cup {id}]

\* if (this.shouldSendRequestToDfp(adSlot)) refresh else hide: the errored
\* result null is falsy
RefreshOrHide(st, id) ==
    Bind(shouldSendRequestToDfp(st, id), LAMBDA g :
        Bind([g.st EXCEPT !.errored = IF g.raised THEN @ \cup {id} ELSE @], LAMBDA s1 :
            IF Truthy(g.res) THEN refresh(s1, id) ELSE HideDenied(s1, id)))

\* lines 659-669: one slot of refreshAllSlots
RefreshAllOne(st, id) ==
    IF st.cfg[id].responsive /\ getAdType(st, id) # adTypes.maavaron
    THEN IF st.adSlots[id].lastResolvedWithBreakpoint # st.env.breakpoint
         THEN RefreshOrHide(st, id)
         ELSE HideDenied(st, id)
    ELSE st

RECURSIVE RefreshAllLoop(_, _, _)
RefreshAllLoop(st, keys, k) ==
    IF k > Len(keys) THEN st
    ELSE Bind(RefreshAllOne(st, keys[k]), LAMBDA s1 : RefreshAllLoop(s1, keys, k + 1))

refreshAllSlots(st) == [st |-> RefreshAllLoop(st, st.regOrder, 1), exc |-> FALSE]

RECURSIVE RefreshInPageLoop(_, _, _)
RefreshInPageLoop(st, keys, k) ==
    IF k > Len(keys) THEN st
    ELSE Bind(RefreshOrHide(st, keys[k]), LAMBDA s1 : RefreshInPageLoop(s1, keys, k + 1))

refreshAllSlotsInPage(st) == [st |-> RefreshInPageLoop(st, st.regOrder, 1), exc |-> FALSE]

\* lines 694-702: for an id that is not registered the gate returns false and
\* adSlot.hide() raises
refreshSlot(st, adUnitName) ==
    IF st.adSlots[adUnitName].reg
    THEN [st |-> RefreshOrHide(st, adUnitName), exc |-> FALSE]
    ELSE [st |-> st, exc |-> TRUE]

\* lines 1252-1257: one slot of switchedToBreakpoint
SwitchedOne(st, id, breakpoint) ==
    IF /\ st.cfg[id].responsive
       /\ st.adSlots[id].lastResolvedWithBreakpoint # "undefined"
       /\ st.adSlots[id].lastResolvedWithBreakpoint # breakpoint
    THEN refresh(st, id)
    ELSE st

RECURSIVE SwitchedLoop(_, _, _, _)
SwitchedLoop(st, keys, k, breakpoint) ==
    IF k > Len(keys) THEN st
    ELSE Bind(SwitchedOne(st, keys[k], breakpoint), LAMBDA s1 :
            SwitchedLoop(s1, keys, k + 1, breakpoint))

switchedToBreakpoint(st, breakpoint) ==
    [st |-> SwitchedLoop(st, st.regOrder, 1, breakpoint), exc |-> FALSE]

----------------------------------------------------------------------------
(* AdManager.shouldDisplayInterstitialSmall, shouldDisplayInterstitialFull  *)

\* lines 858-863; env.referrer is the set of the substrings of interest the
\* referrer contains
isReferrerOfHaaretz(st) == st.env.referrer \cap {"haaretz.co", "themarker.com"} # {}

\* lines 1044-1048
userIsPaying(st) == st.env.userType = adTargets.paying

\* line 878 left out
SetSessionFlagSkipped(st) == st

\* line 878: sessionStorage.setItem(INTERSTITIAL_DFP_KEY, true)
SetSessionFlag(st) == [st EXCEPT !.ssFlag = TRUE]

\* lines 874-899
shouldDisplayInterstitialSmall(st, id) ==
    IF IdIncludes(st, id, adTypes.interstitialSmall)
    THEN IF userIsPaying(st)
         THEN [st |-> SetSessionFlag(st), res |-> JS(~st.ssFlag)]
         ELSE IF st.lsItem.kind = "none" \/ ~isReferrerOfHaaretz(st)
         THEN [st |-> st, res |-> "true"]
         ELSE IF getParsed(st.lsItem).attempt < 2
         THEN [st |-> st, res |-> "true"]
         ELSE [st |-> setInterstitialShowingData(st, FALSE), res |-> "false"]
    ELSE [st |-> st, res |-> "false"]

\* lines 932-959 without the test of the attempt count
shouldDisplayInterstitialFullAnyAttempt(st, id, t) ==
    IF \/ ~IdIncludes(st, id, adTypes.interstitialFull)
       \/ ~isReferrerOfHaaretz(st)
       \/ userIsPaying(st)
       \/ st.lsItem.kind = "none"
       \/ st.env.isReadyToRenderExternals = "false"
    THEN "false"
    ELSE IF getParsed(st.lsItem).hasShowTime
         THEN JS(InWindow(Abs(t - getParsed(st.lsItem).showTime)))
         ELSE "undefined"

\* lines 932-959; t is the argument now; a record without a showTime string
\* falls off the end of the function
shouldDisplayInterstitialFull(st, id, t) ==
    IF \/ ~IdIncludes(st, id, adTypes.interstitialFull)
       \/ ~isReferrerOfHaaretz(st)
       \/ userIsPaying(st)
       \/ st.lsItem.kind = "none"
       \/ st.env.isReadyToRenderExternals = "false"
    THEN "false"
    ELSE IF getParsed(st.lsItem).hasShowTime
         THEN IF getParsed(st.lsItem).attempt < 3
              THEN "false"
              ELSE JS(InWindow(Abs(t - getParsed(st.lsItem).showTime)))
         ELSE "undefined"

----------------------------------------------------------------------------
(* The gate on its own: one registered slot "B", blocked by "A", with every *)
(* combination of the inputs its predicates read.                           *)

BaseEnv == [isReadyToRenderExternals |-> "true", isWebView |-> FALSE, mobile |-> FALSE,
            isHTZ |-> TRUE, site |-> "haaretz", referrer |-> {"haaretz.co"},
            adBlockRemoved |-> FALSE,
            cobj |-> [kind |-> "none", mc |-> 0, next |-> "absent"],
            breakpoint |-> "s", resizes |-> 0, isValidForsmartPhone |-> "true",
            userType |-> UserTypes.anonymous, overrideIdentity |-> FALSE,
            hasAdUnitBase |-> TRUE]

AllSizes == [b \in BpNames |-> "sizes"]

BaseCfg == [kw |-> {}, priority |-> adPriorities.normal, responsive |-> FALSE,
            responsiveAdSizeMapping |-> AllSizes, whitelistReferrers |-> {},
            blacklistReferrers |-> {}, domTarget |-> "absent", billboardAt |-> -1]

GateEnvs ==
    {[BaseEnv EXCEPT !.isReadyToRenderExternals = r, !.isWebView = w,
                     !.adBlockRemoved = ab, !.cobj = c,
                     !.isValidForsmartPhone = v, !.userType = u] :
        r \in {"true", "false", "undefined"}, w \in BOOLEAN, ab \in BOOLEAN,
        c \in {[kind |-> "none", mc |-> 0, next |-> "absent"],
               [kind |-> "record", mc |-> 3, next |-> "absent"],
               [kind |-> "record", mc |-> 3, next |-> "null"],
               [kind |-> "record", mc |-> 3, next |-> "pop"]},
        v \in {"true", "undefined"},
        u \in {UserTypes.anonymous, UserTypes.paying}}

GateCfgs ==
    {[BaseCfg EXCEPT !.kw = k, !.responsive = m.responsive,
                     !.responsiveAdSizeMapping = [AllSizes EXCEPT !["s"] = m.at],
                     !.whitelistReferrers = rf.wl, !.blacklistReferrers = rf.bl,
                     !.domTarget = t] :
        k \in {{}, {adTypes.interstitial, "interstitial"}, {adTypes.maavaron},
               {adTypes.popunder}, {"inread"}},
        m \in {[responsive |-> FALSE, at |-> "sizes"], [responsive |-> TRUE, at |-> "sizes"],
               [responsive |-> TRUE, at |-> "zero"], [responsive |-> TRUE, at |-> "missing"]},
        rf \in {[wl |-> {}, bl |-> {}], [wl |-> {"facebook"}, bl |-> {}],
                [wl |-> {}, bl |-> {"haaretz.co"}]},
        t \in {"absent", adTargets.paying}}

\* a stored throttle record whose showTime lies inside the window at GateNow
GateNow == 1000000
ShownItem == [kind |-> "record", attempt |-> 1, hasShowTime |-> TRUE, showTime |-> 0]

InitGate ==
    /\ env \in GateEnvs
    /\ \E c \in GateCfgs : cfg = [i \in Ids |-> IF i = "B" THEN c ELSE BaseCfg]
    /\ edges = {<<"A", "B">>}
    /\ \E el \in {"none", "late", "bound"} :
          /\ dom = IF el = "none" THEN {} ELSE {"B"}
          /\ adSlots = [i \in Ids |->
                 IF i = "B"
                 THEN [NoSlot EXCEPT !.reg = TRUE, !.htmlElement = (el = "bound"),
                         !.target = IF el = "bound" THEN ElementTarget([cfg |-> cfg], "B")
                                    ELSE IF getAdType([cfg |-> cfg], "B") = adTypes.interstitial
                                    THEN adTargets.nonPaying ELSE adTargets.all,
                         !.deferredSlot = TRUE]
                 ELSE NoSlot]
    /\ regOrder = <<"B">>
    /\ deferredSlots = <<"B">>
    /\ \E r \in {"none", "EMPTY"} : resolvedWith = [i \in Ids |-> IF i = "A" THEN r ELSE "none"]
    /\ defineCalls = ZeroCount
    /\ displayCalls = ZeroCount
    /\ pending = {}
    /\ lsItem \in {NoItem, ShownItem}
    /\ ssFlag = FALSE
    /\ timers = <<>>
    /\ interstitialTimeoutMultiplier = 1
    /\ now = GateNow
    /\ pc = "gate"
    /\ last = [op |-> "init"]

\* one evaluation of the gate for "B"
EvalGate ==
    /\ pc = "gate"
    /\ \E g \in {shouldSendRequestToDfp(Cur, "B")} :
          /\ Commit(g.st)
          /\ last' = [op |-> "gate", id |-> "B", res |-> g.res, raised |-> g.raised,
                      trace |-> g.trace, exc |-> g.exc]
    /\ pc' = "gated"

NextGate == EvalGate

SpecGate == InitGate /\ [][NextGate]_vars

\* a second evaluation of the gate for "B" right after the first, with
\* nothing else in between
EvalGateAgain ==
    /\ pc = "gated"
    /\ \E g \in {shouldSendRequestToDfp(Cur, "B")} :
          /\ Commit(g.st)
          /\ last' = [op |-> "gateAgain", id |-> "B", res |-> g.res, raised |-> g.raised,
                      trace |-> g.trace, exc |-> g.exc, first |-> last.res]
    /\ pc' = "gatedAgain"

NextGateTwice == EvalGate \/ EvalGateAgain

SpecGateTwice == InitGate /\ [][NextGateTwice]_vars

----------------------------------------------------------------------------
(* The page: five configured slots.  "A" (top.billboard, high) blocks "B",  *)
(* "C" and "I"; "X" (high) blocks "C" as well.  "I" is an interstitial slot  *)
(* and "C" a mobile_web slot.  One slot at most is misconfigured.  The page  *)
(* has the elements of "A", "X" and "C" from the start, adds the element of *)
(* "B" at any time, and never has one for "I".                              *)

Faults == {"none", "bDefine", "bGate", "xDefine", "cCtor"}

PageEdges == {<<"A", "B">>, <<"A", "C">>, <<"A", "I">>, <<"X", "C">>}

PageCfg(fault) ==
    [i \in Ids |->
       CASE i = "A" -> [BaseCfg EXCEPT !.kw = {"billboard"}, !.billboardAt = 4,
                                       !.priority = adPriorities.high]
         [] i = "X" -> [BaseCfg EXCEPT !.priority = adPriorities.high,
                          !.responsive = (fault = "xDefine"),
                          !.responsiveAdSizeMapping =
                              IF fault = "xDefine" THEN [AllSizes EXCEPT !["l"] = "notArray"]
                              ELSE AllSizes]
         [] i = "B" -> [BaseCfg EXCEPT
                          !.responsive = (fault \in {"bDefine", "bGate"}),
                          !.responsiveAdSizeMapping =
                              IF fault = "bDefine" THEN [AllSizes EXCEPT !["l"] = "notArray"]
                              ELSE IF fault = "bGate" THEN [AllSizes EXCEPT !["s"] = "missing"]
                              ELSE AllSizes]
         [] i = "C" -> [BaseCfg EXCEPT !.kw = {"mobile_web"}]
         [] i = "I" -> [BaseCfg EXCEPT !.kw = {adTypes.interstitial, "interstitial"}]]

Snapshot == [deferredSlots |-> deferredSlots, resolvedWith |-> resolvedWith,
             adSlots |-> adSlots, displayCalls |-> displayCalls,
             defineCalls |-> defineCalls]

Init ==
    /\ \E m \in BOOLEAN, fault \in Faults :
          /\ env = [BaseEnv EXCEPT !.mobile = m, !.hasAdUnitBase = (fault # "cCtor")]
          /\ cfg = PageCfg(fault)
    /\ edges = PageEdges
    /\ dom = {"A", "X", "C"}
    /\ adSlots = [i \in Ids |-> NoSlot]
    /\ regOrder = <<>>
    /\ deferredSlots = <<>>
    /\ resolvedWith = [i \in Ids |-> "none"]
    /\ defineCalls = ZeroCount
    /\ displayCalls = ZeroCount
    /\ pending = {}
    /\ lsItem = NoItem
    /\ ssFlag = FALSE
    /\ timers = <<>>
    /\ interstitialTimeoutMultiplier = 1
    /\ now = 0
    /\ pc = "start"
    /\ last = [op |-> "init"]

\* what a handler did, for the claims
Done(op, id, isEmpty, r, caught, admitted, drained) ==
    last' = [op |-> op, id |-> id, isEmpty |-> isEmpty, exc |-> r.exc,
             caught |-> caught, admitted |-> admitted, drained |-> drained,
             evals |-> r.st.evals, deleted |-> r.st.deleted, before |-> Snapshot]

\* constructor, lines 546-562: the high pass, and the normal pass right after;
\* render outcomes and timers are callbacks, which run after the constructor
InitAdSlotsHigh ==
    /\ pc = "start"
    /\ \E r \in {initAdSlots(Cur, adPriorities.high)} :
          Commit(r.st) /\ Done("initAdSlots", "high", FALSE, r, FALSE, {}, FALSE)
    /\ pc' = "high"

InitAdSlotsNormal ==
    /\ pc = "high"
    /\ \E r \in {initAdSlots(Cur, adPriorities.normal)} :
          Commit(r.st) /\ Done("initAdSlots", "normal", FALSE, r, FALSE, {}, FALSE)
    /\ pc' = "ready"

\* the page adds the element of a slot
DomInsert(id) ==
    /\ id \notin dom
    /\ dom' = dom \cup {id}
    /\ last' = [op |-> "domInsert", id |-> id]
    /\ UNCHANGED <<env, cfg, edges, adSlots, regOrder, deferredSlots, resolvedWith,
                   defineCalls, displayCalls, pending, lsItem, ssFlag, timers,
                   interstitialTimeoutMultiplier, now, pc>>

ShowAllSlots(priorityFilter) ==
    /\ pc = "ready"
    /\ \E r \in {showAllSlots(Cur, priorityFilter)} :
          Commit(r.st) /\ Done("showAllSlots", priorityFilter, FALSE, r, FALSE, {}, FALSE)
    /\ UNCHANGED pc

ShowAllDeferredSlots ==
    /\ pc = "ready"
    /\ \E r \in {showAllDeferredSlots(Cur)} :
          Commit(r.st) /\ Done("showAllDeferredSlots", "", FALSE, r, FALSE, {}, FALSE)
    /\ UNCHANGED pc

\* the backend emits the render outcome of a requested slot
SlotRenderEnded(id, isEmpty) ==
    /\ pc = "ready"
    /\ id \in pending
    /\ \E r \in {slotRenderEnded([Cur EXCEPT !.pending = @ \ {id}], id, isEmpty)} :
          Commit(r.st) /\ Done("slotRenderEnded", id, isEmpty, r, r.caught, r.admitted,
                               r.drained)
    /\ UNCHANGED pc

\* the oldest delayed write of setInterstitialShowingData fires
TimerFire ==
    /\ pc = "ready"
    /\ timers # <<>>
    /\ Commit(InterstitialWrite([Cur EXCEPT !.timers = Tail(@)], Head(timers)))
    /\ last' = [op |-> "timer", id |-> ""]
    /\ UNCHANGED pc

Next ==
    \/ InitAdSlotsHigh
    \/ InitAdSlotsNormal
    \/ DomInsert("B")
    \/ \E p \in {adPriorities.high, adPriorities.normal} : ShowAllSlots(p)
    \/ ShowAllDeferredSlots
    \/ \E id \in Ids, isEmpty \in BOOLEAN : SlotRenderEnded(id, isEmpty)
    \/ TimerFire

Spec == Init /\ [][Next]_vars

----------------------------------------------------------------------------
(* The page with a slot of low priority: "I" is configured with priority    *)
(* normal or low.                                                           *)

InitPasses ==
    /\ \E m \in BOOLEAN, fault \in Faults,
          p \in {adPriorities.normal, adPriorities.low} :
          /\ env = [BaseEnv EXCEPT !.mobile = m, !.hasAdUnitBase = (fault # "cCtor")]
          /\ cfg = [PageCfg(fault) EXCEPT !["I"].priority = p]
    /\ edges = PageEdges
    /\ dom = {"A", "X", "C"}
    /\ adSlots = [i \in Ids |-> NoSlot]
    /\ regOrder = <<>>
    /\ deferredSlots = <<>>
    /\ resolvedWith = [i \in Ids |-> "none"]
    /\ defineCalls = ZeroCount
    /\ displayCalls = ZeroCount
    /\ pending = {}
    /\ lsItem = NoItem
    /\ ssFlag = FALSE
    /\ timers = <<>>
    /\ interstitialTimeoutMultiplier = 1
    /\ now = 0
    /\ pc = "start"
    /\ last = [op |-> "init"]

\* the constructor's two passes (lines 546-562), then the page's calls of
\* showAllSlots, with a priority or without an argument, and the render
\* outcomes
NextPasses ==
    \/ InitAdSlotsHigh
    \/ InitAdSlotsNormal
    \/ \E p \in {adPriorities.high, adPriorities.normal, adPriorities.low, "undefined"} :
          ShowAllSlots(p)
    \/ DomInsert("B")
    \/ \E id \in Ids, isEmpty \in BOOLEAN : SlotRenderEnded(id, isEmpty)

SpecPasses == InitPasses /\ [][NextPasses]_vars

----------------------------------------------------------------------------
(* The page under breakpoint changes: "X" and "B" are responsive, and the   *)
(* size mapping of "X" at the breakpoint "l" has sizes, has the size [0, 0] *)
(* (the slot is not for that breakpoint), or is missing.                    *)

RefreshCfg(xl) ==
    [PageCfg("none") EXCEPT
        !["X"].responsive = TRUE,
        !["X"].responsiveAdSizeMapping = [AllSizes EXCEPT !["l"] = xl],
        !["B"].responsive = TRUE]

InitRefresh ==
    /\ env = [BaseEnv EXCEPT !.mobile = TRUE]
    /\ \E xl \in {"sizes", "zero", "missing"} : cfg = RefreshCfg(xl)
    /\ edges = PageEdges
    /\ dom = {"A", "X", "C"}
    /\ adSlots = [i \in Ids |-> NoSlot]
    /\ regOrder = <<>>
    /\ deferredSlots = <<>>
    /\ resolvedWith = [i \in Ids |-> "none"]
    /\ defineCalls = ZeroCount
    /\ displayCalls = ZeroCount
    /\ pending = {}
    /\ lsItem = NoItem
    /\ ssFlag = FALSE
    /\ timers = <<>>
    /\ interstitialTimeoutMultiplier = 1
    /\ now = 0
    /\ pc = "start"
    /\ last = [op |-> "init"]

\* what a refresh operation did, for the claims
DoneRefresh(op, id, r) ==
    last' = [op |-> op, id |-> id, exc |-> r.exc, evals |-> r.st.evals,
             refreshed |-> r.st.refreshed, hid |-> r.st.hid,
             errored |-> r.st.errored, before |-> Snapshot]

\* the viewport passes to the other breakpoint
BreakpointChange ==
    /\ pc = "ready"
    /\ env.resizes < MaxResizes
    /\ \E b \in BpNames \ {env.breakpoint} :
          env' = [env EXCEPT !.breakpoint = b, !.resizes = @ + 1]
    /\ last' = [op |-> "breakpointChange", id |-> ""]
    /\ UNCHANGED <<cfg, edges, dom, adSlots, regOrder, deferredSlots, resolvedWith,
                   defineCalls, displayCalls, pending, lsItem, ssFlag, timers,
                   interstitialTimeoutMultiplier, now, pc>>

RefreshAllSlots ==
    /\ pc = "ready"
    /\ \E r \in {refreshAllSlots(Cur)} :
          Commit(r.st) /\ DoneRefresh("refreshAllSlots", "", r)
    /\ UNCHANGED pc

RefreshAllSlotsInPage ==
    /\ pc = "ready"
    /\ \E r \in {refreshAllSlotsInPage(Cur)} :
          Commit(r.st) /\ DoneRefresh("refreshAllSlotsInPage", "", r)
    /\ UNCHANGED pc

RefreshSlot(adUnitName) ==
    /\ pc = "ready"
    /\ \E r \in {refreshSlot(Cur, adUnitName)} :
          Commit(r.st) /\ DoneRefresh("refreshSlot", adUnitName, r)
    /\ UNCHANGED pc

\* the host reports the breakpoint that is displayed now
SwitchedToBreakpoint ==
    /\ pc = "ready"
    /\ \E r \in {switchedToBreakpoint(Cur, env.breakpoint)} :
          Commit(r.st) /\ DoneRefresh("switchedToBreakpoint", env.breakpoint, r)
    /\ UNCHANGED pc

NextRefresh ==
    \/ InitAdSlotsHigh
    \/ InitAdSlotsNormal
    \/ \E id \in Ids, isEmpty \in BOOLEAN : SlotRenderEnded(id, isEmpty)
    \/ BreakpointChange
    \/ RefreshAllSlots
    \/ RefreshAllSlotsInPage
    \/ \E id \in {"X", "B"} : RefreshSlot(id)
    \/ SwitchedToBreakpoint

SpecRefresh == InitRefresh /\ [][NextRefresh]_vars

----------------------------------------------------------------------------
(* The page loaded at the breakpoint "l", where the size mapping of "X" has *)
(* sizes or the size [0, 0], and resized to "s" later.                      *)

InitResize ==
    /\ env = [BaseEnv EXCEPT !.mobile = TRUE, !.breakpoint = "l"]
    /\ \E xl \in {"sizes", "zero"} : cfg = RefreshCfg(xl)
    /\ edges = PageEdges
    /\ dom = {"A", "X", "C"}
    /\ adSlots = [i \in Ids |-> NoSlot]
    /\ regOrder = <<>>
    /\ deferredSlots = <<>>
    /\ resolvedWith = [i \in Ids |-> "none"]
    /\ defineCalls = ZeroCount
    /\ displayCalls = ZeroCount
    /\ pending = {}
    /\ lsItem = NoItem
    /\ ssFlag = FALSE
    /\ timers = <<>>
    /\ interstitialTimeoutMultiplier = 1
    /\ now = 0
    /\ pc = "start"
    /\ last = [op |-> "init"]

\* the constructor's passes, the render outcomes, the resize, and the page's
\* calls of showAllSlots and of the refresh operations after it
NextResize ==
    \/ InitAdSlotsHigh
    \/ InitAdSlotsNormal
    \/ \E id \in Ids, isEmpty \in BOOLEAN : SlotRenderEnded(id, isEmpty)
    \/ BreakpointChange
    \/ ShowAllSlots(adPriorities.high)
    \/ RefreshAllSlots
    \/ RefreshSlot("X")

SpecResize == InitResize /\ [][NextResize]_vars

----------------------------------------------------------------------------
(* The interstitial policies on their own: checks of the small and the full *)
(* policy for slot "I" within one session, for every referrer, user, flag,  *)
(* throttle record and instant.                                             *)

\* policy checks in one session
MaxChecks == 3

\* the instant of the stored showTime, in milliseconds
ThrottleShownAt == 2000000

\* now - showTime, in milliseconds
ThrottleOffsets == {-1800000, -5000, 0, 2000, 3000, 3001, 5000, 10800, 10801, 1800000,
                    3779999, 3780000, 4200000}

ThrottleItems ==
    {NoItem} \cup
    {[kind |-> "record", attempt |-> a, hasShowTime |-> h,
      showTime |-> IF h THEN ThrottleShownAt ELSE 0] : a \in 1..4, h \in BOOLEAN}

InitThrottle ==
    /\ \E rf \in {{"haaretz.co"}, {"themarker.com"}, {"facebook"}},
          u \in {UserTypes.anonymous, UserTypes.registered, UserTypes.paying},
          r \in {"true", "false", "undefined"} :
          env = [BaseEnv EXCEPT !.referrer = rf, !.userType = u, !.mobile = TRUE,
                                !.isReadyToRenderExternals = r]
    /\ \E k \in {{adTypes.interstitialFull, "interstitial"},
                  {adTypes.interstitialSmall, "interstitial", "interstitial.mobile"},
                  {}} :
          cfg = [i \in Ids |-> IF i = "I" THEN [BaseCfg EXCEPT !.kw = k] ELSE BaseCfg]
    /\ edges = {}
    /\ dom = {}
    /\ adSlots = [i \in Ids |-> NoSlot]
    /\ regOrder = <<>>
    /\ deferredSlots = <<>>
    /\ resolvedWith = [i \in Ids |-> "none"]
    /\ defineCalls = ZeroCount
    /\ displayCalls = ZeroCount
    /\ pending = {}
    /\ lsItem \in ThrottleItems
    /\ ssFlag = FALSE
    /\ timers = <<>>
    /\ interstitialTimeoutMultiplier = 1
    /\ \E d \in ThrottleOffsets : now = ThrottleShownAt + d
    /\ pc = "session"
    /\ last = [op |-> "init", n |-> 0, small |-> 0]

\* interstitialShouldDisplay, lines 985-987: one check of the small policy;
\* n counts the checks of the session, small those of the small policy
SmallCheck ==
    /\ pc = "session"
    /\ last.n < MaxChecks
    /\ \E r \in {shouldDisplayInterstitialSmall(Cur, "I")} :
          /\ Commit(r.st)
          /\ last' = [op |-> "small", n |-> last.n + 1, small |-> last.small + 1,
                      res |-> r.res]
    /\ UNCHANGED pc

\* interstitialShouldDisplay, lines 989-991: one check of the full policy
FullCheck ==
    /\ pc = "session"
    /\ last.n < MaxChecks
    /\ last' = [op |-> "full", n |-> last.n + 1, small |-> last.small,
                res |-> shouldDisplayInterstitialFull(Cur, "I", now)]
    /\ UNCHANGED <<env, cfg, edges, dom, adSlots, regOrder, deferredSlots, resolvedWith,
                   defineCalls, displayCalls, pending, lsItem, ssFlag, timers,
                   interstitialTimeoutMultiplier, now, pc>>

\* the oldest delayed write of setInterstitialShowingData fires
ThrottleTimerFire ==
    /\ pc = "session"
    /\ timers # <<>>
    /\ Commit(InterstitialWrite([Cur EXCEPT !.timers = Tail(@)], Head(timers)))
    /\ last' = [last EXCEPT !.op = "timer"]
    /\ UNCHANGED pc

NextThrottle ==
    \/ SmallCheck
    \/ FullCheck
    \/ ThrottleTimerFire

SpecThrottle == InitThrottle /\ [][NextThrottle]_vars

----------------------------------------------------------------------------
(* The persistence of the throttle record on its own: calls of              *)
(* setInterstitialShowingData, their delayed writes fired by the clock, and *)
(* reads of the record by the three policies, for slot "I".                 *)

\* calls of setInterstitialShowingData in one page lifetime
MaxCalls == 2

\* steps of TIMEOUT_STEP_MS the clock takes
MaxTicks == 4

\* the instant the page starts at, in milliseconds
PersistStart == 3800000

\* a stored item that is not JSON
MalformedItem == [kind |-> "malformed", attempt |-> 0, hasShowTime |-> FALSE, showTime |-> 0]

PersistItems ==
    {NoItem, MalformedItem,
     [kind |-> "record", attempt |-> 1, hasShowTime |-> FALSE, showTime |-> 0],
     [kind |-> "record", attempt |-> 2, hasShowTime |-> TRUE, showTime |-> ThrottleShownAt]}

\* the attempt count a write reads from the stored item (lines 1018-1021)
StoredAttempt(item) == IF item.kind = "none" THEN 0 ELSE getParsed(item).attempt

\* the instant a delayed write is due
Due(t) == t.showTime + t.delay

RemoveAt(seq, i) == SubSeq(seq, 1, i - 1) \o SubSeq(seq, i + 1, Len(seq))

InitPersist ==
    /\ \E rf \in {{"haaretz.co"}, {"facebook"}},
          u \in {UserTypes.anonymous, UserTypes.paying} :
          env = [BaseEnv EXCEPT !.referrer = rf, !.userType = u, !.mobile = TRUE]
    /\ \E k \in {{adTypes.interstitialFull, "interstitial"},
                  {adTypes.interstitialSmall, "interstitial", "interstitial.mobile"},
                  {adTypes.interstitial, "interstitial"}} :
          cfg = [i \in Ids |-> IF i = "I" THEN [BaseCfg EXCEPT !.kw = k] ELSE BaseCfg]
    /\ edges = {}
    /\ dom = {}
    /\ adSlots = [i \in Ids |-> NoSlot]
    /\ regOrder = <<>>
    /\ deferredSlots = <<>>
    /\ resolvedWith = [i \in Ids |-> "none"]
    /\ defineCalls = ZeroCount
    /\ displayCalls = ZeroCount
    /\ pending = {}
    /\ lsItem \in PersistItems
    /\ ssFlag = FALSE
    /\ timers = <<>>
    /\ interstitialTimeoutMultiplier = 1
    /\ now = PersistStart
    /\ pc = "page"
    /\ last = [op |-> "init", res |-> "", initial |-> StoredAttempt(lsItem)]

\* AdSlot.show, lines 260-262 (no timestamp) and 268-270 (with timestamp):
\* one call of setInterstitialShowingData
PersistCall(hasNow) ==
    /\ pc = "page"
    /\ interstitialTimeoutMultiplier <= MaxCalls
    /\ Commit(setInterstitialShowingData(Cur, hasNow))
    /\ last' = [last EXCEPT !.op = "call", !.res = ""]
    /\ UNCHANGED pc

\* time passes
Tick ==
    /\ pc = "page"
    /\ now < PersistStart + MaxTicks * TIMEOUT_STEP_MS
    /\ now' = now + TIMEOUT_STEP_MS
    /\ last' = [last EXCEPT !.op = "tick", !.res = ""]
    /\ UNCHANGED <<env, cfg, edges, dom, adSlots, regOrder, deferredSlots, resolvedWith,
                   defineCalls, displayCalls, pending, lsItem, ssFlag, timers,
                   interstitialTimeoutMultiplier, pc>>

\* a delayed write fires: one that is due, and no other is due before it
PersistTimerFire ==
    /\ pc = "page"
    /\ \E i \in 1..Len(timers) :
          /\ Due(timers[i]) <= now
          /\ \A j \in 1..Len(timers) : Due(timers[i]) <= Due(timers[j])
          /\ Commit(InterstitialWrite([Cur EXCEPT !.timers = RemoveAt(@, i)], timers[i]))
    /\ last' = [last EXCEPT !.op = "timer", !.res = ""]
    /\ UNCHANGED pc

\* one check of the small policy (lines 874-899)
SmallPolicy ==
    /\ pc = "page"
    /\ interstitialTimeoutMultiplier <= MaxCalls
    /\ \E r \in {shouldDisplayInterstitialSmall(Cur, "I")} :
          /\ Commit(r.st)
          /\ last' = [last EXCEPT !.op = "small", !.res = r.res]
    /\ UNCHANGED pc

\* one check of the full policy (lines 932-959)
FullPolicy ==
    /\ pc = "page"
    /\ last' = [last EXCEPT !.op = "full",
                            !.res = shouldDisplayInterstitialFull(Cur, "I", now)]
    /\ UNCHANGED <<env, cfg, edges, dom, adSlots, regOrder, deferredSlots, resolvedWith,
                   defineCalls, displayCalls, pending, lsItem, ssFlag, timers,
                   interstitialTimeoutMultiplier, now, pc>>

\* one check of the gate's time-window policy (lines 1057-1085)
GenericPolicy ==
    /\ pc = "page"
    /\ last' = [last EXCEPT !.op = "generic",
                            !.res = JS(googleInterstitialShouldDisplay(Cur, "I"))]
    /\ UNCHANGED <<env, cfg, edges, dom, adSlots, regOrder, deferredSlots, resolvedWith,
                   defineCalls, displayCalls, pending, lsItem, ssFlag, timers,
                   interstitialTimeoutMultiplier, now, pc>>

NextPersist ==
    \/ \E hasNow \in BOOLEAN : PersistCall(hasNow)
    \/ Tick
    \/ PersistTimerFire
    \/ SmallPolicy
    \/ FullPolicy
    \/ GenericPolicy

SpecPersist == InitPersist /\ [][NextPersist]_vars

----------------------------------------------------------------------------
(* doesUserTypeMatchBannerTargeting on its own, for every target, user type *)
(* and form of the argument.                                                *)

\* the seven targets of adTargets and two strings that are none of them
TargetInputs ==
    {adTargets.all, adTargets.nonPaying, adTargets.anonymous, adTargets.registered,
     adTargets.paying, adTargets.digitalOnly, adTargets.digitalAndPrint, "vip", ""}

InitTargeting ==
    /\ \E u \in {UserTypes.anonymous, UserTypes.registered, UserTypes.paying},
          o \in BOOLEAN :
          env = [BaseEnv EXCEPT !.userType = u, !.overrideIdentity = o]
    /\ cfg = [i \in Ids |-> BaseCfg]
    /\ edges = {}
    /\ dom = {"B"}
    /\ \E t \in TargetInputs :
          adSlots = [i \in Ids |->
                       IF i = "B"
                       THEN [NoSlot EXCEPT !.reg = TRUE, !.htmlElement = TRUE, !.target = t]
                       ELSE NoSlot]
    /\ regOrder = <<"B">>
    /\ deferredSlots = <<>>
    /\ resolvedWith = [i \in Ids |-> "none"]
    /\ defineCalls = ZeroCount
    /\ displayCalls = ZeroCount
    /\ pending = {}
    /\ lsItem = NoItem
    /\ ssFlag = FALSE
    /\ timers = <<>>
    /\ interstitialTimeoutMultiplier = 1
    /\ now = 0
    /\ pc = "targeting"
    /\ last = [op |-> "init"]

\* lines 1208-1212: the argument is a target string or an AdSlot
MatchTargeting(form) ==
    /\ pc = "targeting"
    /\ last' = [op |-> "targeting", form |-> form, adTarget |-> adSlots["B"].target,
                res |-> doesUserTypeMatchBannerTargeting(Cur, adSlots["B"].target)]
    /\ pc' = "matched"
    /\ UNCHANGED <<env, cfg, edges, dom, adSlots, regOrder, deferredSlots, resolvedWith,
                   defineCalls, displayCalls, pending, lsItem, ssFlag, timers,
                   interstitialTimeoutMultiplier, now>>

NextTargeting == \E form \in {"string", "adSlot"} : MatchTargeting(form)

SpecTargeting == InitTargeting /\ [][NextTargeting]_vars

----------------------------------------------------------------------------
(* doesBreakpointContainAd on its own, for every size mapping of slot "B"   *)
(* and either breakpoint as its argument.                                   *)

MappingEntries == {"sizes", "mixed", "zero", "empty", "missing"}

InitBreakpoint ==
    /\ \E b \in BpNames : env = [BaseEnv EXCEPT !.breakpoint = b]
    /\ \E r \in BOOLEAN, ms \in MappingEntries, ml \in MappingEntries :
          cfg = [i \in Ids |->
                   IF i = "B"
                   THEN [BaseCfg EXCEPT !.responsive = r,
                            !.responsiveAdSizeMapping = [s |-> ms, l |-> ml]]
                   ELSE BaseCfg]
    /\ edges = {}
    /\ dom = {"B"}
    /\ adSlots = [i \in Ids |->
                    IF i = "B" THEN [NoSlot EXCEPT !.reg = TRUE, !.htmlElement = TRUE]
                    ELSE NoSlot]
    /\ regOrder = <<"B">>
    /\ deferredSlots = <<>>
    /\ resolvedWith = [i \in Ids |-> "none"]
    /\ defineCalls = ZeroCount
    /\ displayCalls = ZeroCount
    /\ pending = {}
    /\ lsItem = NoItem
    /\ ssFlag = FALSE
    /\ timers = <<>>
    /\ interstitialTimeoutMultiplier = 1
    /\ now = 0
    /\ pc = "breakpoint"
    /\ last = [op |-> "init"]

\* line 1269: the breakpoint is the argument, by default the current one
ContainsAd(breakpoint) ==
    /\ pc = "breakpoint"
    /\ last' = [op |-> "containsAd", breakpoint |-> breakpoint,
                res |-> doesBreakpointContainAd([Cur EXCEPT !.env.breakpoint = breakpoint],
                                                "B")]
    /\ pc' = "answered"
    /\ UNCHANGED <<env, cfg, edges, dom, adSlots, regOrder, deferredSlots, resolvedWith,
                   defineCalls, displayCalls, pending, lsItem, ssFlag, timers,
                   interstitialTimeoutMultiplier, now>>

NextBreakpoint == \E breakpoint \in BpNames : ContainsAd(breakpoint)

SpecBreakpoint == InitBreakpoint /\ [][NextBreakpoint]_vars

----------------------------------------------------------------------------
(* sortAdSlots on its own: registries of three or four slots in every       *)
(* order, each id with or without the key 'billboard' at one of two         *)
(* positions. LexRank is the lexicographic order of the ids.                *)

SortIds == {"X", "B", "I", "A"}

\* positions of 'billboard' in an id
KeyPositions == {2, 4}

\* the sequences without repetition over the set
RECURSIVE Arrangements(_)
Arrangements(S) ==
    IF S = {} THEN {<<>>}
    ELSE UNION {{<<x>> \o t : t \in Arrangements(S \ {x})} : x \in S}

SortInputs ==
    UNION {Arrangements(S) : S \in {T \in SUBSET SortIds : Cardinality(T) >= 3}}

InitSort ==
    /\ env = BaseEnv
    /\ \E at \in [SortIds -> KeyPositions \cup {-1}] :
          cfg = [i \in Ids |->
                   IF i \in SortIds /\ at[i] # -1
                   THEN [BaseCfg EXCEPT !.kw = {"billboard"}, !.billboardAt = at[i]]
                   ELSE BaseCfg]
    /\ edges = {}
    /\ dom = {}
    /\ regOrder \in SortInputs
    /\ adSlots = [i \in Ids |->
                    IF InSeq(i, regOrder) THEN [NoSlot EXCEPT !.reg = TRUE] ELSE NoSlot]
    /\ deferredSlots = <<>>
    /\ resolvedWith = [i \in Ids |-> "none"]
    /\ defineCalls = ZeroCount
    /\ displayCalls = ZeroCount
    /\ pending = {}
    /\ lsItem = NoItem
    /\ ssFlag = FALSE
    /\ timers = <<>>
    /\ interstitialTimeoutMultiplier = 1
    /\ now = 0
    /\ pc = "sort"
    /\ last = [op |-> "init"]

\* line 819: return this.sortAdSlots(adSlots)
SortAdSlots ==
    /\ pc = "sort"
    /\ regOrder' = sortAdSlots(Cur, regOrder)
    /\ last' = [op |-> "sortAdSlots", input |-> regOrder]
    /\ pc' = "sorted"
    /\ UNCHANGED <<env, cfg, edges, dom, adSlots, deferredSlots, resolvedWith,
                   defineCalls, displayCalls, pending, lsItem, ssFlag, timers,
                   interstitialTimeoutMultiplier, now>>

NextSort == SortAdSlots

SpecSort == InitSort /\ [][NextSort]_vars

----------------------------------------------------------------------------
(* CLAIMS *)

\* the predicates of the specification's list, in its order
ListedOrder ==
    <<"isReadyToRenderExternals", "htmlElement", "googleInterstitialShouldDisplay",
      "isBlocked", "isWhitelisted", "isBlacklisted", "shouldDisplayAdInWebView",
      "shouldDisplayAdMaavaronAfterPayWallBanner", "doesBreakpointContainAd",
      "haveValidCookieForSmartphoneapp", "doesUserTypeMatchBannerTargeting">>

IsPrefix(s, t) == Len(s) <= Len(t) /\ \A k \in 1..Len(s) : s[k] = t[k]

Gated == pc = "gated" /\ last.op = "gate"

MappingMissing(id) ==
    cfg[id].responsive /\ cfg[id].responsiveAdSizeMapping[env.breakpoint] = "missing"

\* C1: the gate evaluates the listed predicates in the listed order and stops
\* at the first that fails: with the readiness flag false nothing after it is
\* evaluated and the result is a denial, not the errored result, even when
\* breakpoint containment would raise; a blocked slot with a missing size
\* mapping is denied, not errored.
C1_GateShortCircuits ==
    Gated =>
      /\ IsPrefix(SelectSeq(last.trace, LAMBDA n : InSeq(n, ListedOrder)), ListedOrder)
      /\ \A k \in 1..(Len(last.trace) - 1) : Truthy(GateOperand(Cur, "B", last.trace[k]))
      /\ ~Truthy(env.isReadyToRenderExternals) =>
            /\ last.trace = <<"adSlot", "isReadyToRenderExternals">>
            /\ ~last.raised
            /\ last.res = env.isReadyToRenderExternals
      /\ (Truthy(env.isReadyToRenderExternals) /\ isBlocked(Cur, "B")
            /\ InSeq("isBlocked", last.trace)) =>
            /\ ~last.raised
            /\ last.res = "false"
            /\ ~InSeq("doesBreakpointContainAd", last.trace)

C1_Witness ==
    /\ Gated
    /\ MappingMissing("B")
    /\ env.isReadyToRenderExternals = "false"
    /\ last.res = "false"
    /\ ~last.raised

\* the eleven predicates of the specification's list, on the state the gate left
ElevenHold ==
    /\ Truthy(env.isReadyToRenderExternals)
    /\ (adSlots["B"].htmlElement \/
        (~env.isWebView /\ getAdType(Cur, "B") = adTypes.interstitial))
    /\ googleInterstitialShouldDisplay(Cur, "B")
    /\ ~isBlocked(Cur, "B")
    /\ isWhitelisted(Cur, "B")
    /\ ~isBlacklisted(Cur, "B")
    /\ shouldDisplayAdInWebView(Cur, "B")
    /\ Truthy(shouldDisplayAdMaavaronAfterPayWallBanner(Cur, "B"))
    /\ Truthy(doesBreakpointContainAd(Cur, "B"))
    /\ Truthy(haveValidCookieForSmartphoneapp(Cur))
    /\ doesUserTypeMatchBannerTargeting(Cur, adSlots["B"].target)

NoPredicateRaises == doesBreakpointContainAd(Cur, "B") # "raise"

\* C2 as stated: when no predicate raises, the gate admits exactly when the
\* eleven listed predicates hold.
C2_ElevenDecide ==
    (Gated /\ NoPredicateRaises) => (Truthy(last.res) <=> ElevenHold)

\* C2 amended: when no predicate raises, the gate admits exactly when the
\* eleven listed predicates hold and, in addition, the slot is not a maavaron
\* or popunder slot on a page whose ad blocker was removed.
C2_TwelveDecide ==
    (Gated /\ NoPredicateRaises) =>
        (Truthy(last.res) <=> (ElevenHold /\ shouldDisplayAdAfterAdBlockRemoval(Cur, "B")))

C2_Witness ==
    /\ Gated
    /\ ElevenHold
    /\ env.adBlockRemoved
    /\ getAdType(Cur, "B") = adTypes.popunder
    /\ last.res = "false"

\* C3 as stated: when a predicate raises, the gate does not admit, the
\* exception does not reach the caller, and the value returned is one the
\* gate never returns for a denial in which nothing raised.
C3_ErroredIsNotDenied ==
    Gated =>
      /\ ~last.exc
      /\ last.raised => (~Truthy(last.res) /\ last.res = GateCatch)
      /\ (~last.raised /\ ~Truthy(last.res)) => last.res # GateCatch

----------------------------------------------------------------------------
(* Claims about the page: registration, deferral and release *)

Ready == pc = "ready"

\* the last step handled a render outcome
Outcome == Ready /\ last.op = "slotRenderEnded"

\* the slot was a registered member of the deferred set when the last step
\* began and nothing blocks it now
Releasable(b) ==
    /\ InSeq(b, last.before.deferredSlots)
    /\ adSlots[b].reg
    /\ ~isBlocked(Cur, b)

C5_SizedPredecessorBlocksForGood ==
    \A e \in edges :
      resolvedWith[e[1]] = "sized" =>
        /\ ~adSlots[e[2]].shown
        /\ displayCalls[e[2]] = 0
        /\ defineCalls[e[2]] = 0
        /\ e[2] \notin pending

C5_Witness ==
    /\ Outcome
    /\ last.id = "X"
    /\ last.isEmpty
    /\ last.drained
    /\ last.before.resolvedWith["A"] = "sized"
    /\ adSlots["B"].reg
    /\ "B" \in dom
    /\ ~adSlots["B"].shown

\* C6 as stated: the empty outcome of "A", with "B" (blocked by "A" only) in
\* the deferred set and admitted by the gate, takes "B" out of the deferred
\* set and evaluates the gate for "B" exactly once.
C6_GateOncePerOutcome ==
    (/\ Outcome
     /\ last.id = "A"
     /\ last.isEmpty
     /\ InSeq("B", last.before.deferredSlots)
     /\ "B" \in last.admitted) =>
        /\ ~InSeq("B", deferredSlots)
        /\ last.evals["B"] = 1

\* C7 as stated: after every render outcome handled without an exception,
\* every registered member of the deferred set that is no longer blocked had
\* the gate run for it.
C7_EveryOutcomeDrains ==
    (Outcome /\ ~last.caught) =>
        \A b \in Ids : Releasable(b) => last.evals[b] >= 1

\* C8 as stated: a registered successor that the gate admitted while the
\* empty outcome of its predecessor was handled without an exception is
\* shown, defined at the backend and requested when the handling ends.
C8_AdmittedIsShown ==
    (Outcome /\ last.isEmpty /\ ~last.caught) =>
        \A b \in last.admitted :
           (<<last.id, b>> \in edges /\ adSlots[b].reg) =>
              /\ adSlots[b].shown
              /\ defineCalls[b] >= 1
              /\ displayCalls[b] >= 1

\* the gate admits the slot in the current state and show would pass for it
WouldBeShown(b) ==
    /\ Truthy(shouldSendRequestToDfp(Cur, b).res)
    /\ ShowPasses(ShowLateInit(Cur, b), b)

\* C9 as stated: when defining or showing one deferred slot raised during a
\* drain, every other member (one whose own definition does not raise) that
\* is unblocked and admitted was still shown during that outcome.
C9_DrainIsolatesFailures ==
    (Outcome /\ last.drained /\ last.caught) =>
        \A b \in Ids :
           (Releasable(b) /\ ~DefineRaises(Cur, b) /\ WouldBeShown(b)) => adSlots[b].shown

\* C10: no exception leaves a registration pass, and every configured slot
\* of the pass's priority whose construction does not raise is registered,
\* and, in the high pass, evaluated by the gate - whatever happened to the
\* slots before it.
C10_PassIsolatesFailures ==
    last.op = "initAdSlots" =>
      /\ ~last.exc
      /\ \A i \in Ids :
           (cfg[i].priority = last.id /\ ~ConstructorRaises(Cur, i)) =>
              /\ adSlots[i].reg
              /\ last.id = adPriorities.high => last.evals[i] >= 1

C10_Witness ==
    /\ last.op = "initAdSlots"
    /\ last.id = adPriorities.normal
    /\ ConstructorRaises(Cur, "C")
    /\ ~adSlots["C"].reg
    /\ adSlots["B"].reg
    /\ adSlots["I"].reg

----------------------------------------------------------------------------
(* Claims about a slot's request state *)

\* C11: in every step of the page (registration passes, showAllSlots,
\* showAllDeferredSlots, render outcomes; no breakpoint change) a slot's shown
\* flag never returns to false, the backend has received at most one display
\* request for the slot, and a request is made only in the step in which the
\* flag becomes true - a later show() of the slot does nothing.
C11_RequestedAtMostOnce ==
    [][\A i \in Ids :
          /\ adSlots[i].shown => adSlots'[i].shown
          /\ displayCalls'[i] <= 1
          /\ displayCalls'[i] # displayCalls[i] =>
                (~adSlots[i].shown /\ adSlots'[i].shown)]_vars

\* a slot that was shown by showAllSlots, is still a member of the deferred
\* set, and for which showAllDeferredSlots then ran the gate and show() again
C11_Witness ==
    /\ Ready
    /\ last.op = "showAllDeferredSlots"
    /\ last.evals["B"] >= 1
    /\ last.before.adSlots["B"].shown
    /\ InSeq("B", deferredSlots)
    /\ displayCalls["B"] = 1

----------------------------------------------------------------------------
(* Claims about breakpoint changes and refreshes *)

\* the slot rendered at another breakpoint than the current one, and the gate
\* admits it now
Rearmed(i) ==
    /\ adSlots[i].lastResolvedWithBreakpoint \notin {"undefined", env.breakpoint}
    /\ Truthy(shouldSendRequestToDfp(Cur, i).res)

\* C12 as stated: refreshAllSlots and switchedToBreakpoint refresh a
\* registered responsive slot at the backend only if it has a recorded
\* last-render breakpoint that differs from the current one and the gate
\* admits it; a responsive slot failing either condition is hidden and not
\* refreshed.
C12_RefreshOnlyWhenRearmed ==
    (last.op \in {"refreshAllSlots", "switchedToBreakpoint"}) =>
        \A i \in Ids :
           (adSlots[i].reg /\ cfg[i].responsive) =>
              /\ i \in last.refreshed => Rearmed(i)
              /\ ~Rearmed(i) => (i \in last.hid /\ i \notin last.refreshed)

\* C15 as stated: in refreshAllSlots, refreshAllSlotsInPage and refreshSlot a
\* slot for which the gate returned the errored result is not hidden by the
\* caller.
C15_ErroredIsNotHidden ==
    (last.op \in {"refreshAllSlots", "refreshAllSlotsInPage", "refreshSlot"}) =>
        last.errored \cap last.hid = {}

----------------------------------------------------------------------------
(* Claims about the gate as a function *)

C14_GateChangesNothing ==
    [][pc = "gate" =>
          /\ adSlots' = adSlots
          /\ regOrder' = regOrder
          /\ deferredSlots' = deferredSlots
          /\ lsItem' = lsItem
          /\ ssFlag' = ssFlag]_vars

----------------------------------------------------------------------------
(* Claims about the deferred set *)

\* C16 as stated: handling a render outcome, the AdManager itself deletes
\* nothing from the conflict resolver's deferred slots.
C16_ManagerNeverDeletesDeferred ==
    Outcome => last.deleted = {}

\* C17 as stated: after a drain that ran to its end, no registered member of
\* the deferred set is unblocked.
C17_NoUnblockedMemberAfterDrain ==
    (Outcome /\ last.drained /\ ~last.caught) =>
        \A b \in SeqToSet(deferredSlots) : adSlots[b].reg => isBlocked(Cur, b)

----------------------------------------------------------------------------
(* Claims about the interstitial policies *)

\* the difference between the instant of the check and the stored showTime,
\* without its sign
Elapsed == Abs(now - lsItem.showTime)

\* every condition of the full policy but the window
FullConditionsMet ==
    /\ IdIncludes(Cur, "I", adTypes.interstitialFull)
    /\ isReferrerOfHaaretz(Cur)
    /\ ~userIsPaying(Cur)
    /\ env.isReadyToRenderExternals # "false"
    /\ lsItem.kind = "record"
    /\ lsItem.hasShowTime
    /\ lsItem.attempt >= 3

\* C18: the full policy allows exactly when the id is a full-interstitial
\* id, the referrer is an own-site referrer, the user is not paying, the
\* ready flag is not false, a stored record with a showTime exists, its
\* attempt count is at least 3 and the time between the showTime and the
\* check is strictly inside the window (3 s, 63 min): attempt 2 at 30 min is
\* denied, attempt 3 at 30 min allowed, attempt 3 at 70 min denied.
C18_FullPolicyAllowsExactly ==
    last.op = "full" =>
      /\ Truthy(last.res) <=>
           /\ FullConditionsMet
           /\ Elapsed > GOOGLE_INTERSTITIAL_MIN_TIME_MS
           /\ Elapsed < GOOGLE_INTERSTITIAL_TIME_MS
      /\ (FullConditionsMet /\ now - lsItem.showTime = 4200000) => ~Truthy(last.res)
      /\ (lsItem.kind = "record" /\ lsItem.attempt = 2
            /\ now - lsItem.showTime = 1800000) => ~Truthy(last.res)

C18_Witness ==
    /\ last.op = "full"
    /\ last.res = "true"
    /\ lsItem.attempt = 3
    /\ now - lsItem.showTime = 1800000

\* C19 as stated: with every other condition of the full policy met, a check
\* at most 10.8 s after the showTime is denied, a check 63 min after it or
\* later is denied, and a check strictly between the two is allowed.
C19_WindowFromTenSeconds ==
    (last.op = "full" /\ FullConditionsMet) =>
      /\ Elapsed <= 10800 => ~Truthy(last.res)
      /\ Elapsed >= GOOGLE_INTERSTITIAL_TIME_MS => ~Truthy(last.res)
      /\ (Elapsed > 10800 /\ Elapsed < GOOGLE_INTERSTITIAL_TIME_MS) => Truthy(last.res)

\* C19, corrected: the minimum is 3 s; with every other condition of the
\* full policy met, a check at most 3 s after the showTime is denied, a check
\* 63 min after it or later is denied, and a check strictly between the two,
\* 5 s after it for one, is allowed.
C19_WindowFromThreeSeconds ==
    (last.op = "full" /\ FullConditionsMet) =>
      /\ Elapsed <= GOOGLE_INTERSTITIAL_MIN_TIME_MS => ~Truthy(last.res)
      /\ Elapsed >= GOOGLE_INTERSTITIAL_TIME_MS => ~Truthy(last.res)
      /\ (Elapsed > GOOGLE_INTERSTITIAL_MIN_TIME_MS /\ Elapsed < GOOGLE_INTERSTITIAL_TIME_MS)
            => Truthy(last.res)

C19_Witness ==
    /\ last.op = "full"
    /\ FullConditionsMet
    /\ now - lsItem.showTime = 5000
    /\ last.res = "true"

\* C20: for a paying user, every check of the small policy for a
\* small-interstitial id leaves the session flag set, the check allows
\* exactly when it is the first such check of the session, and no step
\* clears the flag.
C20_PayingOncePerSession ==
    [][/\ ssFlag => ssFlag'
       /\ (/\ userIsPaying(Cur)
           /\ IdIncludes(Cur, "I", adTypes.interstitialSmall)
           /\ last'.op = "small") =>
             /\ ssFlag'
             /\ Truthy(last'.res) <=> last'.small = 1]_vars

C20_Witness ==
    /\ userIsPaying(Cur)
    /\ IdIncludes(Cur, "I", adTypes.interstitialSmall)
    /\ last.op = "small"
    /\ last.small = 3
    /\ last.res = "false"
    /\ ssFlag

\* C21 as stated: for a user who is not paying, the small policy denies a
\* small-interstitial id exactly when the referrer is not an own-site
\* referrer and a stored record has an attempt count of at least 2.
C21_SmallDeniesOffSiteRepeat ==
    (/\ last.op = "small"
     /\ ~userIsPaying(Cur)
     /\ IdIncludes(Cur, "I", adTypes.interstitialSmall)) =>
        (~Truthy(last.res) <=>
            /\ ~isReferrerOfHaaretz(Cur)
            /\ lsItem.kind = "record"
            /\ lsItem.attempt >= 2)

\* the gate evaluated its time-window operand and went on to the next one
GoogleThrottlePassed ==
    \E k \in 1..(Len(last.trace) - 1) : last.trace[k] = "googleInterstitialShouldDisplay"

\* C22 as stated: when the gate evaluates its time-window operand for an
\* interstitial-type slot whose stored record has a showTime, the operand
\* passes exactly when the time since the showTime is strictly inside the
\* window; for a slot of another type it always passes.
C22_GenericWindowAsFullPolicy ==
    (Gated /\ InSeq("googleInterstitialShouldDisplay", last.trace)) =>
        /\ (getAdType(Cur, "B") = adTypes.interstitial /\ lsItem.kind = "record"
              /\ lsItem.hasShowTime) =>
                 (GoogleThrottlePassed <=> InWindow(Abs(now - lsItem.showTime)))
        /\ getAdType(Cur, "B") # adTypes.interstitial => GoogleThrottlePassed

----------------------------------------------------------------------------
(* Claims about the persistence of the throttle record *)

\* C23: the write of a call of setInterstitialShowingData stores a record
\* whose attempt count is the stored one plus 1 (1 when nothing was
\* stored); it stores the instant of the call as showTime when the caller
\* supplied it, and leaves the stored showTime as it was when not.
C23_WriteIncrementsAndStamps ==
    [][\A i \in 1..Len(timers) :
          timers' = RemoveAt(timers, i) =>
             /\ lsItem'.kind = "record"
             /\ lsItem'.attempt = StoredAttempt(lsItem) + 1
             /\ IF timers[i].hasNow
                THEN lsItem'.hasShowTime /\ lsItem'.showTime = timers[i].showTime
                ELSE /\ lsItem'.hasShowTime = (lsItem.kind = "record" /\ lsItem.hasShowTime)
                     /\ lsItem'.hasShowTime => lsItem'.showTime = lsItem.showTime]_vars

C23_Witness ==
    /\ last.op = "timer"
    /\ last.initial = 2
    /\ lsItem.attempt = 3
    /\ lsItem.hasShowTime
    /\ lsItem.showTime = ThrottleShownAt

\* C24: a call of setInterstitialShowingData leaves the stored record as it
\* is and schedules its write with a delay, and a due instant, larger than
\* those of every call before it; the writes fire in the order of the calls;
\* and whenever no write is outstanding the stored attempt count is the
\* initial one plus the number of calls made.
C24_NoLostUpdates ==
    [][/\ timers' = <<>> =>
            StoredAttempt(lsItem') = last'.initial + (interstitialTimeoutMultiplier' - 1)
       /\ Len(timers') > Len(timers) =>
            /\ lsItem' = lsItem
            /\ interstitialTimeoutMultiplier' = interstitialTimeoutMultiplier + 1
            /\ timers' = Append(timers, timers'[Len(timers')])
            /\ timers'[Len(timers')].delay = interstitialTimeoutMultiplier * TIMEOUT_STEP_MS
            /\ \A j \in 1..Len(timers) :
                  /\ timers[j].delay < timers'[Len(timers')].delay
                  /\ Due(timers[j]) < Due(timers'[Len(timers')])
       /\ \A i \in 1..Len(timers) :
            timers' = RemoveAt(timers, i) =>
               \A j \in 1..Len(timers) : j # i => timers[j].delay > timers[i].delay]_vars

C24_Witness ==
    /\ last.op = "timer"
    /\ timers = <<>>
    /\ interstitialTimeoutMultiplier = MaxCalls + 1
    /\ StoredAttempt(lsItem) = last.initial + MaxCalls

\* the state with nothing stored in place of the stored item
NothingStored == [Cur EXCEPT !.lsItem = NoItem]

\* C25: with a stored item that is not JSON, each of the three policies
\* decides as it does with nothing stored and changes what it changes with
\* nothing stored, and a delayed write stores what it stores with nothing
\* stored.
C25_MalformedIsNoRecord ==
    [][lsItem.kind = "malformed" =>
         /\ last'.op = "small" =>
               /\ Truthy(last'.res) =
                     Truthy(shouldDisplayInterstitialSmall(NothingStored, "I").res)
               /\ timers' = shouldDisplayInterstitialSmall(NothingStored, "I").st.timers
               /\ ssFlag' = shouldDisplayInterstitialSmall(NothingStored, "I").st.ssFlag
               /\ lsItem' = lsItem
         /\ last'.op = "full" =>
               Truthy(last'.res) =
                  Truthy(shouldDisplayInterstitialFull(NothingStored, "I", now))
         /\ last'.op = "generic" =>
               Truthy(last'.res) = googleInterstitialShouldDisplay(NothingStored, "I")
         /\ \A i \in 1..Len(timers) :
               timers' = RemoveAt(timers, i) =>
                  lsItem' = InterstitialWrite(NothingStored, timers[i]).lsItem]_vars

C25_Witness ==
    /\ lsItem.kind = "malformed"
    /\ last.op = "small"
    /\ last.res = "true"
    /\ isReferrerOfHaaretz(Cur)
    /\ ~userIsPaying(Cur)
    /\ IdIncludes(Cur, "I", adTypes.interstitialSmall)

----------------------------------------------------------------------------
(* Claims about targeting, breakpoints and the order of registration *)

\* C26: the targeting predicate returns true for all; for nonPaying exactly
\* when the user is anonymous or registered; for anonymous exactly when the
\* user is anonymous; for registered exactly when registered; for paying,
\* digitalOnly and digitalAndPrint exactly when paying; for any other target
\* false; and true whatever the target and the user when the built-in
\* identity is logged in.
C26_TargetingTable ==
    last.op = "targeting" =>
       IF env.overrideIdentity THEN last.res
       ELSE /\ last.adTarget = "all" => last.res
            /\ last.adTarget = "nonPaying" =>
                  (last.res <=> env.userType \in {"anonymous", "registered"})
            /\ last.adTarget = "anonymous" => (last.res <=> env.userType = "anonymous")
            /\ last.adTarget = "registered" => (last.res <=> env.userType = "registered")
            /\ last.adTarget \in {"paying", "digitalOnly", "digitalAndPrint"} =>
                  (last.res <=> env.userType = "paying")
            /\ last.adTarget \notin {"all", "nonPaying", "anonymous", "registered", "paying",
                                     "digitalOnly", "digitalAndPrint"} => ~last.res

C26_Witness ==
    /\ last.op = "targeting"
    /\ ~env.overrideIdentity
    /\ last.adTarget = "digitalOnly"
    /\ env.userType = "paying"
    /\ last.res

\* C27: breakpoint containment returns true for a slot that is not
\* responsive, and for a responsive slot exactly when the entry of its size
\* mapping at the breakpoint is a list that is neither empty nor the single
\* 0x0 size: with [[0, 0]] at one breakpoint and sizes at the other it is
\* false at the first and true at the second.
C27_ContainsAdExactly ==
    last.op = "containsAd" =>
       /\ ~cfg["B"].responsive => last.res = "true"
       /\ cfg["B"].responsive =>
             (last.res = "true" <=>
                 cfg["B"].responsiveAdSizeMapping[last.breakpoint] \in {"sizes", "mixed"})
       /\ (cfg["B"].responsive /\ cfg["B"].responsiveAdSizeMapping = [s |-> "zero", l |-> "sizes"]) =>
             last.res = (IF last.breakpoint = "s" THEN "false" ELSE "true")

C27_Witness ==
    /\ last.op = "containsAd"
    /\ cfg["B"].responsive
    /\ cfg["B"].responsiveAdSizeMapping = [s |-> "zero", l |-> "sizes"]
    /\ last.breakpoint = "s"
    /\ last.res = "false"

\* C28 as stated: a responsive slot for which the gate returned the errored
\* result because its size mapping has no entry at the current breakpoint is
\* not evaluated by the gate in the next refresh operation.
C28_MisconfiguredSlotExcluded ==
    [][(/\ last.op \in {"refreshAllSlots", "refreshAllSlotsInPage", "refreshSlot"}
        /\ last'.op \in {"refreshAllSlots", "refreshAllSlotsInPage", "refreshSlot"}) =>
           \A i \in last.errored : MappingMissing(i) => last'.evals[i] = 0]_vars

\* C29 as stated: when the high pass has run, every configured slot of high
\* priority whose construction does not raise is registered and no slot of
\* another priority is; and once the passes have run, every configured slot
\* of high, normal or low priority whose construction does not raise is
\* registered.
C29_PassesRegisterEveryTier ==
    /\ pc = "high" =>
          \A i \in Ids :
             /\ (cfg[i].priority = adPriorities.high /\ ~ConstructorRaises(Cur, i)) =>
                   adSlots[i].reg
             /\ cfg[i].priority # adPriorities.high => ~adSlots[i].reg
    /\ Ready =>
          \A i \in Ids :
             (cfg[i].priority \in {adPriorities.high, adPriorities.normal, adPriorities.low}
                /\ ~ConstructorRaises(Cur, i)) => adSlots[i].reg

\* the position of an id in a sequence that holds it
Pos(seq, x) == CHOOSE k \in 1..Len(seq) : seq[k] = x

Pinned(i) == IdIncludes(Cur, i, "billboard")

\* the sorted registry holds the ids of the input, every id with the key
\* before every id without it, and the ids with the key by the position of
\* the key and then lexicographically
PinnedFirstInOrder ==
    /\ Len(regOrder) = Len(last.input)
    /\ SeqToSet(regOrder) = SeqToSet(last.input)
    /\ \A a \in SeqToSet(regOrder), b \in SeqToSet(regOrder) :
          /\ (Pinned(a) /\ ~Pinned(b)) => Pos(regOrder, a) < Pos(regOrder, b)
          /\ (Pinned(a) /\ Pinned(b) /\ a # b /\
                (\/ cfg[a].billboardAt < cfg[b].billboardAt
                 \/ (cfg[a].billboardAt = cfg[b].billboardAt /\ LexRank[a] < LexRank[b]))) =>
                Pos(regOrder, a) < Pos(regOrder, b)

\* the input [x.billboard.2, a.billboard.1, z.other] of the example: "I", "X"
\* with the key at the same position, "A" without it
ExampleInput ==
    /\ last.input = <<"I", "X", "A">>
    /\ Pinned("I") /\ Pinned("X") /\ ~Pinned("A")
    /\ cfg["I"].billboardAt = cfg["X"].billboardAt

\* C30 as stated: sorting places the ids with the key first, in the order of
\* the key's position and then lexicographically, and the ids without the
\* key in lexicographic order, for every input order.
C30_OthersLexicographic ==
    last.op = "sortAdSlots" =>
       /\ PinnedFirstInOrder
       /\ \A a \in SeqToSet(regOrder), b \in SeqToSet(regOrder) :
             (~Pinned(a) /\ ~Pinned(b) /\ LexRank[a] < LexRank[b]) =>
                Pos(regOrder, a) < Pos(regOrder, b)
       /\ ExampleInput => regOrder = <<"X", "I", "A">>

\* C30, corrected: sorting places the ids with the key first, in the order
\* of the key's position and then lexicographically, and leaves the ids
\* without the key in the order the input has them in.
C30_OthersKeepInputOrder ==
    last.op = "sortAdSlots" =>
       /\ PinnedFirstInOrder
       /\ \A a \in SeqToSet(regOrder), b \in SeqToSet(regOrder) :
             (~Pinned(a) /\ ~Pinned(b) /\ Pos(last.input, a) < Pos(last.input, b)) =>
                Pos(regOrder, a) < Pos(regOrder, b)
       /\ ExampleInput => regOrder = <<"X", "I", "A">>

C30_Witness ==
    /\ last.op = "sortAdSlots"
    /\ last.input = <<"A", "I", "B", "X">>
    /\ Pinned("I") /\ Pinned("X") /\ ~Pinned("A") /\ ~Pinned("B")
    /\ cfg["I"].billboardAt = cfg["X"].billboardAt
    /\ regOrder = <<"X", "I", "A", "B">>

----------------------------------------------------------------------------
(* Claims about showing, hiding and defining slots *)

\* C31 as stated: after showAllSlots, every registered slot that the gate
\* admits and show would pass for is shown, if the call had no priority
\* filter or the slot's priority is the filter.
C31_NoFilterShowsAll ==
    (Ready /\ last.op = "showAllSlots" /\ ~last.exc) =>
        \A i \in Ids :
           (/\ adSlots[i].reg
            /\ last.id = "undefined" \/ cfg[i].priority = last.id
            /\ WouldBeShown(i)) => adSlots[i].shown

\* C32 as stated: a slot that was shown, is hidden, and is admitted and
\* refreshed by a breakpoint refresh has its hidden mark removed by it.
C32_RefreshClearsHidden ==
    (Ready /\ last.op \in {"refreshAllSlots", "switchedToBreakpoint"}) =>
        \A i \in Ids :
           (/\ i \in last.refreshed
            /\ last.before.adSlots[i].shown
            /\ last.before.adSlots[i].hidden) => ~adSlots[i].hidden

\* C33 as stated: the backend receives at most one define call for a slot.
C33_DefinedAtMostOnce == \A i \in Ids : defineCalls[i] <= 1

\* C34 as stated: a step that issues a display request or a refresh request
\* for a slot leaves the slot holding a handle the backend returned.
C34_RequestsUseBackendHandle ==
    [][\A i \in Ids :
          (\/ displayCalls'[i] > displayCalls[i]
           \/ /\ last'.op \in {"refreshAllSlots", "refreshAllSlotsInPage",
                                "refreshSlot", "switchedToBreakpoint"}
              /\ i \in last'.refreshed) => adSlots'[i].slot = "gpt"]_vars

\* C35 as stated: in a session of policy checks, in which no slot is shown,
\* no step changes the stored attempt count.
C35_ChecksKeepAttemptCount ==
    [][StoredAttempt(lsItem') = StoredAttempt(lsItem)]_vars

====
